---- MODULE Spec2Model ----
(***************************************************************************)
(* XYLO-HOST deployment platform (server/storage.ts + server/routes.ts,    *)
(* the variant with the live-log WebSocket relay).                         *)
(*                                                                         *)
(*   - MemStorage: deployments and append-only deployment logs             *)
(*   - POST /api/deploy: the orchestration of GitHub REST calls            *)
(*   - the /api/logs-ws relay: subscriptions, poll loops, broadcasts       *)
(*   - GET /api/deployments/:id/logs                                       *)
(*   - POST /api/deploy of server/routes.ts, which retries the dispatch    *)
(*   - two deploy requests interleaved at their awaits                     *)
(*   - the OAuth endpoints and POST /api/setup                             *)
(*   - fetchWorkflowLogs: the steps of the latest workflow run             *)
(*   - the SESSION_ID upsert of the .env file                              *)
(*   - GET /api/deployments and GET /api/deployments/:id                   *)
(*   - two deploy requests of one user naming the same branch              *)
(*                                                                         *)
(* JavaScript strings whose characters matter (branch names) are tuples    *)
(* of one-character strings; null is the tuple NullStr.  Free texts        *)
(* (messages) are tuples of parts; a text is empty iff all parts are "".   *)
(***************************************************************************)
EXTENDS Integers, Sequences, FiniteSets, TLC

\* ------------------------------------------------------------------ bounds
MaxSubscribes == 2      \* subscribe messages handled by the relay
MaxLogWrites  == 3      \* log rows written in the storage specification
MaxDeployments == 2     \* deployments created in the storage specification
MaxSwitches   == 2      \* alternations between the rows of two deploy requests

\* ------------------------------------------------------- program constants
REPO_OWNER    == "XYLO-MD"
REPO_NAME     == "XYLO-MD"
MAIN_BRANCH   == "main"
WORKFLOW_FILE == "deploy.yml"
WS_OPEN       == 1      \* client.readyState === 1

\* --------------------------------------------------------- small universes
Users     == {"alice", "bob"}
Requests  == {"r1"}
Sessions  == {"s1"}
Sockets   == {"w1", "w2"}
ClockValues == {0, 1}   \* readings of the wall clock
NullStr   == <<"<null>">>
NoDeployment == 0

\* request bodies: sessionId present or missing, branchName absent, empty,
\* blank, plain, or padded with blanks
BranchInputs == { NullStr, <<>>, <<" ">>, <<"d">>, <<" ", "d", " ">> }
SessionIdInputs == { "abc123", "" }
\* Math.random().toString(36).substring(2, 8): zero to six base-36 digits
RandomSuffixes == { <<>>, <<"k">>, <<"k", "3", "z", "0", "q", "9">> }

XyloPrefix == <<"x", "y", "l", "o", "-">>

\* ------------------------------------------------------------ JS helpers
RECURSIVE TrimLeft(_)
TrimLeft(s) == IF s # <<>> /\ Head(s) = " " THEN TrimLeft(Tail(s)) ELSE s

RECURSIVE TrimRight(_)
TrimRight(s) ==
    IF s # <<>> /\ s[Len(s)] = " " THEN TrimRight(SubSeq(s, 1, Len(s) - 1)) ELSE s

\* String.prototype.trim
Trim(s) == TrimRight(TrimLeft(s))

\* JS truthiness of an optional string: null/undefined and "" are falsy
Truthy(s) == s # NullStr /\ s # <<>>

HasPrefix(s, p) == Len(s) >= Len(p) /\ SubSeq(s, 1, Len(p)) = p

\* a free text is empty iff every part of it is the empty string
IsEmptyText(m) == \A i \in DOMAIN m : m[i] = ""

\* ------------------------------------------------------------- the state
VARIABLES
    deployments,      \* MemStorage.deployments, in insertion order; id = index
    deploymentLogs,   \* MemStorage.deploymentLogs, in insertion order; id = index
    clock,            \* the wall clock read by new Date()
    session,          \* express-session data of each session
    req,              \* per deploy request: position, locals, response
    ghCalls,          \* per deploy request: the GitHub mutation calls issued
    forks,            \* GitHub: the logins whose REPO_NAME is a fork of the upstream
    envFile,          \* GitHub: .env on the branch of a deploy request, before and
                      \* after the request's write
    workflowRuns,     \* GitHub: the workflow runs of the fork, latest first
    workflowLogs,     \* what fetchWorkflowLogs was answered and returned last
    readyState,       \* per socket: "none", "open", "closing", "closed"
    activeStreams,    \* Map<deploymentId, Set<ws>>
    tasks,            \* the startLogStreaming invocations / poll loops
    afterClose,       \* per socket, after its close handler: a broadcast of an id
                      \* it had subscribed to "skipped" it, or a message was "sent"
    httpResp          \* the last response of an endpoint other than deploy

storeVars  == <<deployments, deploymentLogs, clock>>
fetchVars  == <<envFile, workflowRuns, workflowLogs>>
deployVars == <<session, req, ghCalls, forks, fetchVars>>
relayVars  == <<readyState, activeStreams, tasks, afterClose>>
vars == <<deployments, deploymentLogs, clock, session, req, ghCalls, forks,
          envFile, workflowRuns, workflowLogs,
          readyState, activeStreams, tasks, afterClose, httpResp>>

\* ------------------------------------------------------------ MemStorage
\* the id randomUUID() hands out: unique, here the next index
NewDeploymentId(deps) == Len(deps) + 1

\* createDeployment: defaults by ||, id, createdAt/updatedAt
createDeployment(deps, ins, now) ==
    Append(deps,
        [ id             |-> NewDeploymentId(deps),
          sessionId      |-> ins.sessionId,
          branchName     |-> IF Truthy(ins.branchName) THEN ins.branchName ELSE NullStr,
          githubUsername |-> ins.githubUsername,
          repositoryName |-> ins.repositoryName,
          githubToken    |-> IF Truthy(ins.githubToken) THEN ins.githubToken ELSE NullStr,
          status         |-> IF ins.status # "" THEN ins.status ELSE "pending",
          message        |-> IF ~IsEmptyText(ins.message) THEN ins.message ELSE NullStr,
          workflowUrl    |-> NullStr,
          createdAt      |-> now,
          updatedAt      |-> now ])

getDeployment(deps, id) == IF id \in DOMAIN deps THEN <<deps[id]>> ELSE <<>>

\* the update applied without looking at the id
updateDeployment_AnyRecord(deps, id, updates, now) ==
    [k \in DOMAIN deps |->
        [f \in DOMAIN deps[k] |->
            IF f = "updatedAt" THEN now
            ELSE IF f \in DOMAIN updates THEN updates[f]
            ELSE deps[k][f]]]

\* updateDeployment: {...deployment, ...updates, updatedAt}; no-op for an unknown id
updateDeployment(deps, id, updates, now) ==
    IF id \notin DOMAIN deps THEN deps
    ELSE [deps EXCEPT ![id] =
            [f \in DOMAIN deps[id] |->
                IF f = "updatedAt" THEN now
                ELSE IF f \in DOMAIN updates THEN updates[f]
                ELSE deps[id][f]]]

\* the row stored under the key of the row before it
createDeploymentLog_SameKey(logs, ins, now) ==
    LET row == [ id |-> Len(logs), deploymentId |-> ins.deploymentId, step |-> ins.step,
                 status |-> ins.status, message |-> ins.message, timestamp |-> now ]
    IN IF logs = <<>> THEN <<[row EXCEPT !.id = 1]>> ELSE [logs EXCEPT ![Len(logs)] = row]

\* createDeploymentLog: a new row stamped with new Date()
createDeploymentLog(logs, ins, now) ==
    Append(logs,
        [ id           |-> Len(logs) + 1,
          deploymentId |-> ins.deploymentId,
          step         |-> ins.step,
          status       |-> ins.status,
          message      |-> ins.message,
          timestamp    |-> now ])

\* Array.prototype.filter
RECURSIVE Filter(_, _)
Filter(s, id) ==
    IF s = <<>> THEN <<>>
    ELSE IF Head(s).deploymentId = id THEN <<Head(s)>> \o Filter(Tail(s), id)
    ELSE Filter(Tail(s), id)

\* the comparator reversed: (a, b) => b.timestamp - a.timestamp
RECURSIVE InsertSorted_Desc(_, _)
InsertSorted_Desc(s, x) ==
    IF s = <<>> THEN <<x>>
    ELSE IF x.timestamp - Head(s).timestamp > 0 THEN <<x>> \o s
    ELSE <<Head(s)>> \o InsertSorted_Desc(Tail(s), x)

\* insertion of x behind every element that does not compare greater
RECURSIVE InsertSorted(_, _)
InsertSorted(s, x) ==
    IF s = <<>> THEN <<x>>
    ELSE IF Head(s).timestamp - x.timestamp > 0 THEN <<x>> \o s
    ELSE <<Head(s)>> \o InsertSorted(Tail(s), x)

\* Array.prototype.sort((a, b) => a.timestamp - b.timestamp): a stable sort
RECURSIVE SortByTimestamp(_)
SortByTimestamp(s) ==
    IF s = <<>> THEN <<>>
    ELSE InsertSorted(SortByTimestamp(SubSeq(s, 1, Len(s) - 1)), s[Len(s)])

getDeploymentLogs(logs, id) == SortByTimestamp(Filter(logs, id))

getDeploymentsByUser(deps, u) == SelectSeq(deps, LAMBDA d : d.githubUsername = u)

\* ------------------------------------------------------ the GitHub client
\* What api.github.com can answer to one call: 2xx, 404, another error
\* status with or without a message in the body, a 422 whose message
\* mentions the sha, or no response at all (status 0: network error).
\* axios always sets a non-empty error.message.
AnswerOk       == [kind |-> "ok", status |-> 200, dataMessage |-> <<>>, message |-> <<>>]
AnswerNotFound == [kind |-> "error", status |-> 404, dataMessage |-> <<"Not Found">>,
                   message |-> <<"Request failed with status code 404">>]
AnswerErrors   ==
    { [kind |-> "error", status |-> 500, dataMessage |-> <<"">>,
       message |-> <<"Request failed with status code 500">>],
      [kind |-> "error", status |-> 422, dataMessage |-> <<"sha", "does not match">>,
       message |-> <<"Request failed with status code 422">>],
      [kind |-> "error", status |-> 0, dataMessage |-> <<>>,
       message |-> <<"Network Error">>] }
Answers == {AnswerOk, AnswerNotFound} \cup AnswerErrors

\* String.prototype.includes on a text, at the granularity of its parts
Includes(m, w) == \E i \in DOMAIN m : m[i] = w

\* the fallback to error.message forgotten
ErrorMsg_NoFallback(ans) == ans.dataMessage

\* error.response?.data?.message || error.message
ErrorMsg(ans) == IF ~IsEmptyText(ans.dataMessage) THEN ans.dataMessage ELSE ans.message

\* makeGitHubRequest: the data on 2xx, null on 404, otherwise a plain
\* Error(errorMsg): the thrown error carries no .response
makeGitHubRequest(ans) ==
    IF ans.kind = "ok" THEN [ret |-> "data", message |-> <<>>]
    ELSE IF ans.status = 404 THEN [ret |-> "null", message |-> <<>>]
    ELSE IF Includes(ErrorMsg(ans), "sha")
         THEN [ret |-> "throw",
               message |-> <<"File update failed: ">> \o ErrorMsg(ans)
                           \o <<". This usually means the file was modified since we last checked it.">>]
         ELSE [ret |-> "throw", message |-> ErrorMsg(ans)]

\* reading a property of null
TypeErrorMsg == <<"Cannot read properties of null">>

\* ------------------------------------------------------------- sessions
NoSession == [state |-> "", githubToken |-> NullStr, githubUsername |-> ""]
TokenOf(u) == <<"gho", u>>
LoggedIn(u) == [state |-> "", githubToken |-> TokenOf(u), githubUsername |-> u]
\* GET user answers with the login the token belongs to
LoginOf(token) == token[2]

\* ------------------------------------------------- POST /api/deploy
NoResponse == [kind |-> "none", status |-> 0, success |-> FALSE, error |-> <<>>,
               deploymentId |-> NoDeployment, branch |-> NullStr, workflowUrl |-> NullStr]

\* no GitHub call answered yet
NoAnswer == [kind |-> "none", status |-> 0, dataMessage |-> <<>>, message |-> <<>>]

IdleRequest ==
    [ pc |-> "idle", sess |-> "s1", sessionId |-> "", branchName |-> NullStr,
      token |-> NullStr, deployment |-> NoDeployment, login |-> "", fork |-> "null",
      finalBranchName |-> NullStr, configSha |-> FALSE, envSha |-> FALSE,
      workflowSha |-> FALSE, dispatchError |-> <<>>, response |-> NoResponse,
      \* history of the request, for the properties
      caught |-> FALSE, branchFound |-> FALSE, nonOk |-> FALSE,
      lastCall |-> "", lastAns |-> NoAnswer,
      \* GitHub answered 2xx to the creation of the branch, to the write of
      \* the workflow file
      refCreated |-> FALSE, workflowWritten |-> FALSE ]

\* logStep, for a list of <<step, status, message>> written back to back
RECURSIVE logSteps(_, _, _, _)
logSteps(logs, id, rows, now) ==
    IF rows = <<>> THEN logs
    ELSE logSteps(createDeploymentLog(logs,
                     [deploymentId |-> id, step |-> rows[1][1],
                      status |-> rows[1][2], message |-> rows[1][3]], now),
                  id, Tail(rows), now)

\* the handler goes on: rq are its locals, rows the log rows it writes
Proceed(r, rq, rows) ==
    /\ req' = [req EXCEPT ![r] = rq]
    /\ deploymentLogs' = logSteps(deploymentLogs, rq.deployment, rows, clock)
    /\ deployments' = deployments

\* the catch block without its update of the record
Catch_RecordForgotten(r, rq, rows, deps, msg) ==
    /\ req' = [req EXCEPT ![r] =
                 [rq EXCEPT !.pc = "done", !.caught = TRUE,
                            !.response = [NoResponse EXCEPT !.kind = "error", !.status = 500,
                                             !.success = FALSE, !.error = msg]]]
    /\ deployments' = deps
    /\ deploymentLogs' =
         IF rq.deployment # NoDeployment
         THEN logSteps(deploymentLogs, rq.deployment,
                       rows \o << <<"error", "failed", msg>> >>, clock)
         ELSE deploymentLogs

\* the catch block without its res.status(500).json
Catch_NoResponse(r, rq, rows, deps, msg) ==
    /\ req' = [req EXCEPT ![r] = [rq EXCEPT !.pc = "done", !.caught = TRUE]]
    /\ deployments' =
         IF rq.deployment # NoDeployment
         THEN updateDeployment(deps, rq.deployment,
                               [status |-> "failed", message |-> msg], clock)
         ELSE deps
    /\ deploymentLogs' =
         IF rq.deployment # NoDeployment
         THEN logSteps(deploymentLogs, rq.deployment,
                       rows \o << <<"error", "failed", msg>> >>, clock)
         ELSE deploymentLogs

\* the outer catch: after the rows written before the throw, mark the
\* deployment failed, write the 'error' row, answer 500
Catch(r, rq, rows, deps, msg) ==
    /\ req' = [req EXCEPT ![r] =
                 [rq EXCEPT !.pc = "done", !.caught = TRUE,
                            !.response = [NoResponse EXCEPT !.kind = "error", !.status = 500,
                                             !.success = FALSE, !.error = msg]]]
    /\ deployments' =
         IF rq.deployment # NoDeployment
         THEN updateDeployment(deps, rq.deployment,
                               [status |-> "failed", message |-> msg], clock)
         ELSE deps
    /\ deploymentLogs' =
         IF rq.deployment # NoDeployment
         THEN logSteps(deploymentLogs, rq.deployment,
                       rows \o << <<"error", "failed", msg>> >>, clock)
         ELSE deploymentLogs

\* a GitHub call that changes the fork: what it does, the file it writes,
\* the branch it names, whether it carries the sha of a prior file
Call(op, path, branch, sha) == [op |-> op, path |-> path, branch |-> branch, sha |-> sha]

Issue(r, call) == ghCalls' = [ghCalls EXCEPT ![r] = Append(@, call)]

\* the answer of a call, noted in the history of the request: the call
\* (by the position it was made at) and what GitHub answered
Noted(rq, ans) ==
    [rq EXCEPT !.nonOk = @ \/ ans.kind # "ok", !.lastCall = rq.pc, !.lastAns = ans]

\* deploymentRequestSchema.parse: sessionId is required
ParseOk(sessionId) == sessionId # ""

\* entry: parse the body, check the session, create the record, start step 1
DeployStart(r) ==
    /\ req[r].pc = "idle"
    /\ \E s \in DOMAIN session, sid \in SessionIdInputs, bn \in BranchInputs :
         LET rq0 == [req[r] EXCEPT !.sess = s, !.sessionId = sid, !.branchName = bn,
                                   !.token = session[s].githubToken] IN
         IF ~ParseOk(sid)
         THEN Catch(r, rq0, <<>>, deployments, <<"ZodError: sessionId required">>)
         ELSE IF ~Truthy(session[s].githubToken) \/ session[s].githubUsername = ""
         THEN /\ req' = [req EXCEPT ![r] =
                           [rq0 EXCEPT !.pc = "done",
                                       !.response = [NoResponse EXCEPT !.kind = "unauthenticated",
                                                        !.status = 401,
                                                        !.error = <<"Not authenticated">>]]]
              /\ UNCHANGED <<deployments, deploymentLogs>>
         ELSE LET deps == createDeployment(deployments,
                              [ sessionId |-> sid, branchName |-> bn,
                                githubUsername |-> session[s].githubUsername,
                                repositoryName |-> REPO_NAME,
                                githubToken |-> session[s].githubToken,
                                status |-> "running",
                                message |-> <<"Deployment started">> ], clock)
                  id == deps[Len(deps)].id
              IN /\ deployments' = deps
                 /\ req' = [req EXCEPT ![r] = [rq0 EXCEPT !.pc = "getUser", !.deployment = id]]
                 /\ deploymentLogs' = logSteps(deploymentLogs, id,
                        << <<"init", "running", <<"Getting user information...">> >> >>, clock)
    /\ UNCHANGED <<clock, session, ghCalls, relayVars, forks, fetchVars, httpResp>>

\* step 1: GET user
GetUser(r) ==
    /\ req[r].pc = "getUser"
    /\ \E ans \in Answers :
         LET res == makeGitHubRequest(ans)
             rq  == Noted(req[r], ans) IN
         CASE res.ret = "data" ->
                Proceed(r, [rq EXCEPT !.pc = "getFork", !.login = LoginOf(rq.token)],
                        << <<"init", "success", <<"Connected as ", LoginOf(rq.token)>> >>,
                           <<"fork", "running", <<"Checking repository fork...">> >> >>)
           [] res.ret = "null"  -> Catch(r, rq, <<>>, deployments, TypeErrorMsg)
           [] res.ret = "throw" -> Catch(r, rq, <<>>, deployments, res.message)
    /\ UNCHANGED <<clock, session, ghCalls, relayVars, forks, fetchVars, httpResp>>

\* the fork the handler holds: null unless the user's repository is a fork
\* of REPO_OWNER/REPO_NAME (lines 615-618)
ForkOf(res, isUpstreamFork) ==
    IF res.ret = "data" /\ isUpstreamFork THEN "fork" ELSE "null"

\* step 2: GET repos/<login>/REPO_NAME; any failure means "no fork"
GetFork(r) ==
    /\ req[r].pc = "getFork"
    /\ \E ans \in Answers, isUpstreamFork \in BOOLEAN :
         LET res  == makeGitHubRequest(ans)
             fork == ForkOf(res, isUpstreamFork)
             rq   == [Noted(req[r], ans) EXCEPT !.fork = fork] IN
         IF fork # "null"
         THEN Proceed(r, [rq EXCEPT !.pc = "preCheck"],
                 << <<"actions-check", "running", <<"Checking GitHub Actions compatibility...">> >> >>)
         ELSE Proceed(r, [rq EXCEPT !.pc = "createFork"],
                 << <<"fork", "running", <<"Creating repository fork...">> >> >>)
    /\ UNCHANGED <<clock, session, ghCalls, relayVars, forks, fetchVars, httpResp>>

\* the status written beside the 'fork-info' note of an existing fork
ForkInfoStatus == "info"

\* pre-check of an existing fork: GET actions/permissions, then the
\* "using existing fork" rows and the start of the Actions verification
PreCheck(r) ==
    /\ req[r].pc = "preCheck"
    /\ \E ans \in Answers :
         LET res == makeGitHubRequest(ans)
             rq  == Noted(req[r], ans)
             checked == IF res.ret = "throw"
                        THEN <<"actions-check", "warning",
                               <<"Could not verify GitHub Actions status - proceeding with deployment">> >>
                        ELSE <<"actions-check", "success",
                               <<"GitHub Actions are enabled and accessible">> >>
         IN Proceed(r, [rq EXCEPT !.pc = "actionsCheck"],
                 << checked,
                    <<"fork", "success", <<"Using existing repository fork">> >>,
                    <<"fork-info", ForkInfoStatus, <<"Working with forked repository.">> >>,
                    <<"actions-check", "running",
                      <<"Verifying GitHub Actions are enabled on your fork...">> >> >>)
    /\ UNCHANGED <<clock, session, ghCalls, relayVars, forks, fetchVars, httpResp>>

\* no fork: POST repos/REPO_OWNER/REPO_NAME/forks, wait 2 s
CreateFork(r) ==
    /\ req[r].pc = "createFork"
    /\ Issue(r, Call("createFork", "", NullStr, FALSE))
    /\ \E ans \in Answers :
         LET res == makeGitHubRequest(ans)
             rq  == Noted(req[r], ans) IN
         IF res.ret = "throw" THEN Catch(r, rq, <<>>, deployments, res.message)
         ELSE Proceed(r, [rq EXCEPT !.pc = "actionsCheck",
                                    !.fork = IF res.ret = "data" THEN "fork" ELSE "null"],
                 << <<"fork", "success", <<"Repository fork created successfully">> >>,
                    <<"fork-info", "warning", <<"New fork created.">> >>,
                    <<"actions-check", "running",
                      <<"Verifying GitHub Actions are enabled on your fork...">> >> >>)
    /\ UNCHANGED <<clock, session, relayVars, forks, fetchVars, httpResp>>

\* the test of the trimmed name forgotten
FinalBranchName_NoBlankCheck(branchName, suffix) ==
    IF Truthy(branchName) THEN Trim(branchName) ELSE XyloPrefix \o suffix

\* step 3, first part: the branch name, user-supplied and trimmed or generated
FinalBranchName(branchName, suffix) ==
    IF Truthy(branchName) /\ Truthy(Trim(branchName))
    THEN Trim(branchName)
    ELSE XyloPrefix \o suffix

\* after the Actions verification: rows, then the branch step begins
ToBranchStep(r, rq, rows) ==
    \E suffix \in RandomSuffixes :
        LET name == FinalBranchName(rq.branchName, suffix) IN
        Proceed(r, [rq EXCEPT !.pc = "branchCheck", !.finalBranchName = name],
                rows \o << <<"branch", "running", <<"Creating branch: ">> \o name>> >>)

\* the row written with status 'failed'
ActionsCheckWarning_Failed ==
    <<"actions-check", "failed", <<"Could not verify Actions status">> >>

\* the row the catch of the Actions verification writes (line 690)
ActionsCheckWarning ==
    <<"actions-check", "warning", <<"Could not verify Actions status">> >>

\* GET actions/permissions.  A thrown error has no .response, so the
\* handler's 404 branch of the catch (lines 675-688) is never taken.
ActionsCheck(r) ==
    /\ req[r].pc = "actionsCheck"
    /\ \E ans \in Answers, enabled \in BOOLEAN :
         LET res == makeGitHubRequest(ans)
             rq  == Noted(req[r], ans) IN
         CASE res.ret = "data" /\ ~enabled ->
                Proceed(r, [rq EXCEPT !.pc = "actionsEnable"],
                   << <<"actions-enable", "running",
                        <<"GitHub Actions are disabled. Auto-enabling them now...">> >> >>)
           [] res.ret = "throw" ->
                ToBranchStep(r, rq,
                   << ActionsCheckWarning >>)
           [] OTHER ->
                ToBranchStep(r, rq,
                   << <<"actions-check", "success",
                        <<"GitHub Actions are already enabled and ready">> >> >>)
    /\ UNCHANGED <<clock, session, ghCalls, relayVars, forks, fetchVars, httpResp>>

\* PUT actions/permissions {enabled: true}
ActionsEnable(r) ==
    /\ req[r].pc = "actionsEnable"
    /\ Issue(r, Call("enableActions", "", NullStr, FALSE))
    /\ \E ans \in Answers :
         LET res == makeGitHubRequest(ans)
             rq  == Noted(req[r], ans) IN
         IF res.ret = "throw"
         THEN ToBranchStep(r, rq,
                 << ActionsCheckWarning >>)
         ELSE ToBranchStep(r, rq,
                 << <<"actions-enable", "success",
                      <<"GitHub Actions have been automatically enabled!">> >> >>)
    /\ UNCHANGED <<clock, session, relayVars, forks, fetchVars, httpResp>>

BranchExistsMsg(name) ==
    <<"Branch '">> \o name \o <<"' already exists. Please choose a different name.">>

\* the existence check ignored
BranchTaken_Never(res) == FALSE

\* does the handler abort on the answer of the existence check?
BranchTaken(res) == res.ret = "data"

\* step 3: GET git/ref/heads/<finalBranchName>; an existing branch aborts
BranchCheck(r) ==
    /\ req[r].pc = "branchCheck"
    /\ \E ans \in Answers :
         LET res == makeGitHubRequest(ans)
             \* for the existence check 404 is the answer "branch absent"
             rq  == [Noted(req[r], ans) EXCEPT
                        !.nonOk = req[r].nonOk \/ ans # AnswerNotFound,
                        !.branchFound = (res.ret = "data")] IN
         CASE res.ret = "throw" -> Catch(r, rq, <<>>, deployments, res.message)
           [] res.ret # "throw" /\ BranchTaken(res) ->
                Catch(r, rq,
                      << <<"branch", "failed",
                           <<"Branch '">> \o rq.finalBranchName \o <<"' already exists">> >> >>,
                      deployments, BranchExistsMsg(rq.finalBranchName))
           [] OTHER -> Proceed(r, [rq EXCEPT !.pc = "getMainRef"], <<>>)
    /\ UNCHANGED <<clock, session, ghCalls, relayVars, forks, fetchVars, httpResp>>

\* GET git/ref/heads/MAIN_BRANCH; mainRef.object.sha of null throws
GetMainRef(r) ==
    /\ req[r].pc = "getMainRef"
    /\ \E ans \in Answers :
         LET res == makeGitHubRequest(ans)
             rq  == Noted(req[r], ans) IN
         CASE res.ret = "data"  -> Proceed(r, [rq EXCEPT !.pc = "createRef"], <<>>)
           [] res.ret = "null"  -> Catch(r, rq, <<>>, deployments, TypeErrorMsg)
           [] res.ret = "throw" -> Catch(r, rq, <<>>, deployments, res.message)
    /\ UNCHANGED <<clock, session, ghCalls, relayVars, forks, fetchVars, httpResp>>

\* POST git/refs {ref: refs/heads/<finalBranchName>}
CreateRef(r) ==
    /\ req[r].pc = "createRef"
    /\ Issue(r, Call("createRef", "", req[r].finalBranchName, FALSE))
    /\ \E ans \in Answers :
         LET res == makeGitHubRequest(ans)
             rq  == [Noted(req[r], ans) EXCEPT !.refCreated = (ans.kind = "ok")] IN
         IF res.ret = "throw" THEN Catch(r, rq, <<>>, deployments, res.message)
         ELSE Proceed(r, [rq EXCEPT !.pc = "getConfig"],
                 << <<"branch", "success",
                      <<"Branch '">> \o rq.finalBranchName \o <<"' created successfully">> >>,
                    <<"config", "running", <<"Updating configuration file...">> >> >>)
    /\ UNCHANGED <<clock, session, relayVars, forks, fetchVars, httpResp>>

CONFIG_PATH   == "config.js"
ENV_PATH      == ".env"
WORKFLOW_PATH == ".github/workflows/deploy.yml"

\* step 4: GET contents/config.js; on any failure the default content is used
GetConfig(r) ==
    /\ req[r].pc = "getConfig"
    /\ \E ans \in Answers :
         LET res == makeGitHubRequest(ans)
             rq  == Noted(req[r], ans) IN
         Proceed(r, [rq EXCEPT !.pc = "putConfig", !.configSha = (res.ret = "data")], <<>>)
    /\ UNCHANGED <<clock, session, ghCalls, relayVars, forks, fetchVars, httpResp>>

\* PUT contents/config.js
PutConfig(r) ==
    /\ req[r].pc = "putConfig"
    /\ Issue(r, Call("putFile", CONFIG_PATH, req[r].finalBranchName, req[r].configSha))
    /\ \E ans \in Answers :
         LET res == makeGitHubRequest(ans)
             rq  == Noted(req[r], ans) IN
         IF res.ret = "throw" THEN Catch(r, rq, <<>>, deployments, res.message)
         ELSE Proceed(r, [rq EXCEPT !.pc = "getEnv"], <<>>)
    /\ UNCHANGED <<clock, session, relayVars, forks, fetchVars, httpResp>>

\* GET contents/.env, inside the try that swallows every failure
GetEnv(r) ==
    /\ req[r].pc = "getEnv"
    /\ \E ans \in Answers :
         LET res == makeGitHubRequest(ans)
             rq  == Noted(req[r], ans) IN
         Proceed(r, [rq EXCEPT !.pc = "putEnv", !.envSha = (res.ret = "data")], <<>>)
    /\ UNCHANGED <<clock, session, ghCalls, relayVars, forks, fetchVars, httpResp>>

\* PUT contents/.env; a failure is logged to the console only.  Step 5 begins.
PutEnv(r) ==
    /\ req[r].pc = "putEnv"
    /\ Issue(r, Call("putFile", ENV_PATH, req[r].finalBranchName, req[r].envSha))
    /\ \E ans \in Answers :
         Proceed(r, [Noted(req[r], ans) EXCEPT !.pc = "getWorkflow"],
                 << <<"config", "success", <<"Configuration file updated with session ID">> >>,
                    <<"workflow", "running", <<"Creating GitHub Actions workflow...">> >> >>)
    /\ UNCHANGED <<clock, session, relayVars, forks, fetchVars, httpResp>>

\* GET contents/.github/workflows/WORKFLOW_FILE for the sha of a prior file
GetWorkflow(r) ==
    /\ req[r].pc = "getWorkflow"
    /\ \E ans \in Answers :
         LET res == makeGitHubRequest(ans)
             rq  == Noted(req[r], ans) IN
         Proceed(r, [rq EXCEPT !.pc = "putWorkflow", !.workflowSha = (res.ret = "data")], <<>>)
    /\ UNCHANGED <<clock, session, ghCalls, relayVars, forks, fetchVars, httpResp>>

\* PUT the workflow file; step 6 begins with the 8 s wait
PutWorkflow(r) ==
    /\ req[r].pc = "putWorkflow"
    /\ Issue(r, Call("putFile", WORKFLOW_PATH, req[r].finalBranchName, req[r].workflowSha))
    /\ \E ans \in Answers :
         LET res == makeGitHubRequest(ans)
             rq  == [Noted(req[r], ans) EXCEPT !.workflowWritten = (ans.kind = "ok")] IN
         IF res.ret = "throw" THEN Catch(r, rq, <<>>, deployments, res.message)
         ELSE Proceed(r, [rq EXCEPT !.pc = "checkWorkflow"],
                 << <<"workflow", "success", <<"GitHub Actions workflow created">> >>,
                    <<"deploy", "running", <<"Triggering deployment workflow...">> >> >>)
    /\ UNCHANGED <<clock, session, relayVars, forks, fetchVars, httpResp>>

\* the dispatchError handler.  The caught error has no .response, so of
\* the status cases only the last one (lines 1092-1098) is ever taken.
DispatchErrorMessage(dmsg) == <<"Workflow dispatch failed: ">> \o dmsg
DispatchInstructions == <<"Please manually trigger the workflow">>

\* catch (dispatchError): 'deploy' failed row, record failed with the
\* instructions, then rethrow Error(errorMessage) into the outer catch
DispatchFailed(r, rq, dmsg) ==
    LET errorMessage == DispatchErrorMessage(dmsg)
        deps == updateDeployment(deployments, rq.deployment,
                   [status |-> "failed",
                    message |-> errorMessage \o <<"\n\n">> \o DispatchInstructions], clock)
    IN Catch(r, rq,
             << <<"deploy", "failed", errorMessage \o <<". ">> \o DispatchInstructions>> >>,
             deps, errorMessage)

\* verify that the workflow file exists on the branch
CheckWorkflow(r) ==
    /\ req[r].pc = "checkWorkflow"
    /\ \E ans \in Answers :
         LET res == makeGitHubRequest(ans)
             rq  == Noted(req[r], ans) IN
         CASE res.ret = "data"  -> Proceed(r, [rq EXCEPT !.pc = "getRepoInfo"], <<>>)
           [] res.ret = "null"  ->
                DispatchFailed(r, rq, <<"Workflow file was not created successfully.">>)
           [] res.ret = "throw" -> DispatchFailed(r, rq, res.message)
    /\ UNCHANGED <<clock, session, ghCalls, relayVars, forks, fetchVars, httpResp>>

\* GET repos/<login>/REPO_NAME, inside the inner try: a throw skips the
\* permissions call
GetRepoInfo(r) ==
    /\ req[r].pc = "getRepoInfo"
    /\ \E ans \in Answers :
         LET res == makeGitHubRequest(ans)
             rq  == Noted(req[r], ans) IN
         Proceed(r, [rq EXCEPT !.pc = IF res.ret = "throw" THEN "dispatch"
                                      ELSE "getPermissions"], <<>>)
    /\ UNCHANGED <<clock, session, ghCalls, relayVars, forks, fetchVars, httpResp>>

\* GET actions/permissions, for the console only
GetPermissions(r) ==
    /\ req[r].pc = "getPermissions"
    /\ \E ans \in Answers :
         Proceed(r, [Noted(req[r], ans) EXCEPT !.pc = "dispatch"], <<>>)
    /\ UNCHANGED <<clock, session, ghCalls, relayVars, forks, fetchVars, httpResp>>

WorkflowUrl(login) == <<"https://github.com/", login, "/", REPO_NAME, "/actions">>

\* the record marked 'success' once the workflow is triggered
DispatchedRecord_Success(deps, id, name, url, now) ==
    updateDeployment(
        updateDeployment(deps, id,
            [status |-> "success",
             message |-> <<"Bot deployment workflow is now running">>], now),
        id, [branchName |-> name, workflowUrl |-> url], now)

\* the record after a dispatch that did not throw (lines 1049-1052, 1114-1117)
DispatchedRecord(deps, id, name, url, now) ==
    updateDeployment(
        updateDeployment(deps, id,
            [status |-> "running",
             message |-> <<"Bot deployment workflow is now running">>], now),
        id, [branchName |-> name, workflowUrl |-> url], now)

\* POST actions/workflows/WORKFLOW_FILE/dispatches {ref: finalBranchName};
\* then the record update, the 'deploy' success row and the response
Dispatch(r) ==
    /\ req[r].pc = "dispatch"
    /\ Issue(r, Call("dispatch", WORKFLOW_PATH, req[r].finalBranchName, FALSE))
    /\ \E ans \in Answers :
         LET res == makeGitHubRequest(ans)
             rq  == Noted(req[r], ans)
             url == WorkflowUrl(rq.login) IN
         IF res.ret = "throw" THEN DispatchFailed(r, rq, res.message)
         ELSE /\ deployments' = DispatchedRecord(deployments, rq.deployment,
                                                 rq.finalBranchName, url, clock)
              /\ deploymentLogs' = logSteps(deploymentLogs, rq.deployment,
                    << <<"deploy", "success",
                         <<"Deployment workflow triggered successfully!">> >> >>, clock)
              /\ req' = [req EXCEPT ![r] =
                           [rq EXCEPT !.pc = "done",
                               !.response = [NoResponse EXCEPT !.kind = "success", !.status = 200,
                                   !.success = TRUE, !.deploymentId = rq.deployment,
                                   !.branch = rq.finalBranchName, !.workflowUrl = url]]]
    /\ UNCHANGED <<clock, session, relayVars, forks, fetchVars, httpResp>>

\* one step of the deploy request r
DeployStep(r) ==
    \/ DeployStart(r)
    \/ GetUser(r)
    \/ GetFork(r)
    \/ PreCheck(r)
    \/ CreateFork(r)
    \/ ActionsCheck(r)
    \/ ActionsEnable(r)
    \/ BranchCheck(r)
    \/ GetMainRef(r)
    \/ CreateRef(r)
    \/ GetConfig(r)
    \/ PutConfig(r)
    \/ GetEnv(r)
    \/ PutEnv(r)
    \/ GetWorkflow(r)
    \/ PutWorkflow(r)
    \/ CheckWorkflow(r)
    \/ GetRepoInfo(r)
    \/ GetPermissions(r)
    \/ Dispatch(r)

\* the response of a read endpoint: none yet, 401, 404, or 200 with a body
NoHttp == [kind |-> "none", status |-> 0, id |-> NoDeployment, body |-> <<>>]

\* ------------------------------------------------------- initial states
NoTasks == <<>>

InitStore ==
    /\ deployments = <<>>
    /\ deploymentLogs = <<>>
    /\ clock = 0

\* no .env file, no workflow run, nothing fetched
NoFile == <<"<absent>">>

\* .env with content c, not written by a deploy request
EnvFile(c) == [prior |-> c, content |-> c, written |-> FALSE]

\* nothing fetched yet
NoFetch == [id |-> NoDeployment, runsAnswer |-> NoAnswer, jobsAnswer |-> NoAnswer,
            logs |-> <<>>]

InitFetch ==
    /\ envFile = EnvFile(NoFile)
    /\ workflowRuns = <<>>
    /\ workflowLogs = NoFetch

InitRelay ==
    /\ readyState = [w \in Sockets |-> "none"]
    /\ activeStreams = [k \in {} |-> {}]
    /\ tasks = NoTasks
    /\ afterClose = [w \in Sockets |-> "none"]

\* a session is logged in as some user, or not at all
Init ==
    /\ InitStore
    /\ InitRelay
    /\ session \in [Sessions -> {NoSession} \cup {LoggedIn(u) : u \in Users}]
    /\ req = [r \in Requests |-> IdleRequest]
    /\ ghCalls = [r \in Requests |-> <<>>]
    /\ forks = {}
    /\ InitFetch
    /\ httpResp = NoHttp

\* ------------------------------------------ the deploy request on its own
DeployNext == \E r \in Requests : DeployStep(r)

DeploySpec == Init /\ [][DeployNext]_vars

\* ------------------------------------ the paths of the deploy handler
\* One answer of each kind the handler tells apart (2xx, 404, a thrown
\* error) and one body of each kind (with or without sessionId, with or
\* without branch name) take the request down every path of the handler.
PathAnswers == {NoAnswer, AnswerOk, AnswerNotFound} \cup {a \in AnswerErrors : a.status = 500}

PathNarrow(rq) ==
    /\ rq.branchName \in {NullStr, <<"d">>}
    /\ rq.finalBranchName \in {NullStr, <<"d">>, XyloPrefix \o <<"k">>}
    /\ rq.lastAns \in PathAnswers

DeployPathStep(r) == DeployStep(r) /\ PathNarrow(req'[r])

DeployPathNext == \E r \in Requests : DeployPathStep(r)

\* every await of the handler completes: the storage answers, and each
\* GitHub call returns or throws
DeployFairSpec ==
    /\ Init
    /\ [][DeployPathNext]_vars
    /\ \A r \in Requests : WF_vars(DeployPathStep(r))

\* ------------------------- POST /api/deploy of server/routes.ts (with retry)
\* The handler of server/routes.ts makes the same calls without the Actions
\* checks and the workflow lookups, and retries the dispatch once.  Its
\* positions are named rt...; it shares the storage and the request record.

\* makeGitHubRequest of server/routes.ts: the data on 2xx, null on 404,
\* otherwise Error(error.response?.data?.message || error.message)
RtMakeGitHubRequest(ans) ==
    IF ans.kind = "ok" THEN [ret |-> "data", message |-> <<>>]
    ELSE IF ans.status = 404 THEN [ret |-> "null", message |-> <<>>]
    ELSE [ret |-> "throw", message |-> ErrorMsg(ans)]

\* entry: parse the body, check the session, create the record, start step 1
RtDeployStart(r) ==
    /\ req[r].pc = "idle"
    /\ \E s \in DOMAIN session, sid \in SessionIdInputs, bn \in BranchInputs :
         LET rq0 == [req[r] EXCEPT !.sess = s, !.sessionId = sid, !.branchName = bn,
                                   !.token = session[s].githubToken] IN
         IF ~ParseOk(sid)
         THEN Catch(r, rq0, <<>>, deployments, <<"ZodError: sessionId required">>)
         ELSE IF ~Truthy(session[s].githubToken) \/ session[s].githubUsername = ""
         THEN /\ req' = [req EXCEPT ![r] =
                           [rq0 EXCEPT !.pc = "done",
                                       !.response = [NoResponse EXCEPT !.kind = "unauthenticated",
                                                        !.status = 401,
                                                        !.error = <<"Not authenticated">>]]]
              /\ UNCHANGED <<deployments, deploymentLogs>>
         ELSE LET deps == createDeployment(deployments,
                              [ sessionId |-> sid, branchName |-> bn,
                                githubUsername |-> session[s].githubUsername,
                                repositoryName |-> REPO_NAME,
                                githubToken |-> NullStr,
                                status |-> "running",
                                message |-> <<"Deployment started">> ], clock)
                  id == deps[Len(deps)].id
              IN /\ deployments' = deps
                 /\ req' = [req EXCEPT ![r] = [rq0 EXCEPT !.pc = "rtGetUser", !.deployment = id]]
                 /\ deploymentLogs' = logSteps(deploymentLogs, id,
                        << <<"init", "running", <<"Getting user information...">> >> >>, clock)
    /\ UNCHANGED <<clock, session, ghCalls, relayVars, forks, fetchVars, httpResp>>

\* step 1: GET user; user.login of null throws
RtGetUser(r) ==
    /\ req[r].pc = "rtGetUser"
    /\ \E ans \in Answers :
         LET res == RtMakeGitHubRequest(ans)
             rq  == Noted(req[r], ans) IN
         CASE res.ret = "data" ->
                Proceed(r, [rq EXCEPT !.pc = "rtGetFork", !.login = LoginOf(rq.token)],
                        << <<"init", "success", <<"Connected as ", LoginOf(rq.token)>> >>,
                           <<"fork", "running", <<"Checking repository fork...">> >> >>)
           [] res.ret = "null"  -> Catch(r, rq, <<>>, deployments, TypeErrorMsg)
           [] res.ret = "throw" -> Catch(r, rq, <<>>, deployments, res.message)
    /\ UNCHANGED <<clock, session, ghCalls, relayVars, forks, fetchVars, httpResp>>

\* step 2: GET repos/<login>/REPO_NAME; any failure means "no fork"
RtGetFork(r) ==
    /\ req[r].pc = "rtGetFork"
    /\ \E ans \in Answers, isUpstreamFork \in BOOLEAN :
         LET res  == RtMakeGitHubRequest(ans)
             fork == ForkOf(res, isUpstreamFork)
             rq   == [Noted(req[r], ans) EXCEPT !.fork = fork] IN
         IF fork # "null"
         THEN \E suffix \in RandomSuffixes :
                LET name == FinalBranchName(rq.branchName, suffix) IN
                Proceed(r, [rq EXCEPT !.pc = "rtBranchCheck", !.finalBranchName = name],
                    << <<"fork", "success", <<"Using existing repository fork">> >>,
                       <<"branch", "running", <<"Creating branch: ">> \o name>> >>)
         ELSE Proceed(r, [rq EXCEPT !.pc = "rtCreateFork"],
                 << <<"fork", "running", <<"Creating repository fork...">> >> >>)
    /\ UNCHANGED <<clock, session, ghCalls, relayVars, forks, fetchVars, httpResp>>

\* no fork: POST repos/REPO_OWNER/REPO_NAME/forks, wait 2 s; step 3 begins
RtCreateFork(r) ==
    /\ req[r].pc = "rtCreateFork"
    /\ Issue(r, Call("createFork", "", NullStr, FALSE))
    /\ \E ans \in Answers, suffix \in RandomSuffixes :
         LET res  == RtMakeGitHubRequest(ans)
             rq   == Noted(req[r], ans)
             name == FinalBranchName(rq.branchName, suffix) IN
         IF res.ret = "throw" THEN Catch(r, rq, <<>>, deployments, res.message)
         ELSE Proceed(r, [rq EXCEPT !.pc = "rtBranchCheck", !.finalBranchName = name,
                                    !.fork = IF res.ret = "data" THEN "fork" ELSE "null"],
                 << <<"fork", "success", <<"Repository fork created successfully">> >>,
                    <<"branch", "running", <<"Creating branch: ">> \o name>> >>)
    /\ UNCHANGED <<clock, session, relayVars, forks, fetchVars, httpResp>>

\* step 3: GET git/ref/heads/<finalBranchName>; an existing branch aborts
RtBranchCheck(r) ==
    /\ req[r].pc = "rtBranchCheck"
    /\ \E ans \in Answers :
         LET res == RtMakeGitHubRequest(ans)
             rq  == [Noted(req[r], ans) EXCEPT
                        !.nonOk = req[r].nonOk \/ ans # AnswerNotFound,
                        !.branchFound = (res.ret = "data")] IN
         CASE res.ret = "throw" -> Catch(r, rq, <<>>, deployments, res.message)
           [] res.ret # "throw" /\ BranchTaken(res) ->
                Catch(r, rq,
                      << <<"branch", "failed",
                           <<"Branch '">> \o rq.finalBranchName \o <<"' already exists">> >> >>,
                      deployments, BranchExistsMsg(rq.finalBranchName))
           [] OTHER -> Proceed(r, [rq EXCEPT !.pc = "rtGetMainRef"], <<>>)
    /\ UNCHANGED <<clock, session, ghCalls, relayVars, forks, fetchVars, httpResp>>

\* GET git/ref/heads/MAIN_BRANCH; mainRef.object.sha of null throws
RtGetMainRef(r) ==
    /\ req[r].pc = "rtGetMainRef"
    /\ \E ans \in Answers :
         LET res == RtMakeGitHubRequest(ans)
             rq  == Noted(req[r], ans) IN
         CASE res.ret = "data"  -> Proceed(r, [rq EXCEPT !.pc = "rtCreateRef"], <<>>)
           [] res.ret = "null"  -> Catch(r, rq, <<>>, deployments, TypeErrorMsg)
           [] res.ret = "throw" -> Catch(r, rq, <<>>, deployments, res.message)
    /\ UNCHANGED <<clock, session, ghCalls, relayVars, forks, fetchVars, httpResp>>

\* POST git/refs {ref: refs/heads/<finalBranchName>}
RtCreateRef(r) ==
    /\ req[r].pc = "rtCreateRef"
    /\ Issue(r, Call("createRef", "", req[r].finalBranchName, FALSE))
    /\ \E ans \in Answers :
         LET res == RtMakeGitHubRequest(ans)
             rq  == [Noted(req[r], ans) EXCEPT !.refCreated = (ans.kind = "ok")] IN
         IF res.ret = "throw" THEN Catch(r, rq, <<>>, deployments, res.message)
         ELSE Proceed(r, [rq EXCEPT !.pc = "rtGetConfig"],
                 << <<"branch", "success",
                      <<"Branch '">> \o rq.finalBranchName \o <<"' created successfully">> >>,
                    <<"config", "running", <<"Updating configuration file...">> >> >>)
    /\ UNCHANGED <<clock, session, relayVars, forks, fetchVars, httpResp>>

\* step 4: GET contents/config.js; on any failure the default content is used
RtGetConfig(r) ==
    /\ req[r].pc = "rtGetConfig"
    /\ \E ans \in Answers :
         LET res == RtMakeGitHubRequest(ans)
             rq  == Noted(req[r], ans) IN
         Proceed(r, [rq EXCEPT !.pc = "rtPutConfig", !.configSha = (res.ret = "data")], <<>>)
    /\ UNCHANGED <<clock, session, ghCalls, relayVars, forks, fetchVars, httpResp>>

\* PUT contents/config.js
RtPutConfig(r) ==
    /\ req[r].pc = "rtPutConfig"
    /\ Issue(r, Call("putFile", CONFIG_PATH, req[r].finalBranchName, req[r].configSha))
    /\ \E ans \in Answers :
         LET res == RtMakeGitHubRequest(ans)
             rq  == Noted(req[r], ans) IN
         IF res.ret = "throw" THEN Catch(r, rq, <<>>, deployments, res.message)
         ELSE Proceed(r, [rq EXCEPT !.pc = "rtGetEnv"], <<>>)
    /\ UNCHANGED <<clock, session, relayVars, forks, fetchVars, httpResp>>

\* GET contents/.env, inside the try that swallows every failure
RtGetEnv(r) ==
    /\ req[r].pc = "rtGetEnv"
    /\ \E ans \in Answers :
         LET res == RtMakeGitHubRequest(ans)
             rq  == Noted(req[r], ans) IN
         Proceed(r, [rq EXCEPT !.pc = "rtPutEnv", !.envSha = (res.ret = "data")], <<>>)
    /\ UNCHANGED <<clock, session, ghCalls, relayVars, forks, fetchVars, httpResp>>

\* PUT contents/.env; a failure is logged to the console only.  Step 5 begins.
RtPutEnv(r) ==
    /\ req[r].pc = "rtPutEnv"
    /\ Issue(r, Call("putFile", ENV_PATH, req[r].finalBranchName, req[r].envSha))
    /\ \E ans \in Answers :
         Proceed(r, [Noted(req[r], ans) EXCEPT !.pc = "rtPutWorkflow"],
                 << <<"config", "success", <<"Configuration file updated with session ID">> >>,
                    <<"workflow", "running", <<"Creating GitHub Actions workflow...">> >> >>)
    /\ UNCHANGED <<clock, session, relayVars, forks, fetchVars, httpResp>>

\* PUT the workflow file, without the sha of a prior file; step 6 begins
\* with the 3 s wait
RtPutWorkflow(r) ==
    /\ req[r].pc = "rtPutWorkflow"
    /\ Issue(r, Call("putFile", WORKFLOW_PATH, req[r].finalBranchName, FALSE))
    /\ \E ans \in Answers :
         LET res == RtMakeGitHubRequest(ans)
             rq  == [Noted(req[r], ans) EXCEPT !.workflowWritten = (ans.kind = "ok")] IN
         IF res.ret = "throw" THEN Catch(r, rq, <<>>, deployments, res.message)
         ELSE Proceed(r, [rq EXCEPT !.pc = "rtDispatch"],
                 << <<"workflow", "success", <<"GitHub Actions workflow created">> >>,
                    <<"deploy", "running", <<"Triggering deployment workflow...">> >> >>)
    /\ UNCHANGED <<clock, session, relayVars, forks, fetchVars, httpResp>>

\* the end of the handler after the dispatch try block: the workflow URL on
\* the record, the success response (lines 714-729)
RtFinish(r, rq, deps, rows) ==
    LET url == WorkflowUrl(rq.login) IN
    /\ deployments' = updateDeployment(deps, rq.deployment,
                         [branchName |-> rq.finalBranchName, workflowUrl |-> url], clock)
    /\ deploymentLogs' = logSteps(deploymentLogs, rq.deployment, rows, clock)
    /\ req' = [req EXCEPT ![r] =
                 [rq EXCEPT !.pc = "done",
                     !.response = [NoResponse EXCEPT !.kind = "success", !.status = 200,
                         !.success = TRUE, !.deploymentId = rq.deployment,
                         !.branch = rq.finalBranchName, !.workflowUrl = url]]]

\* the first POST actions/workflows/WORKFLOW_FILE/dispatches; a throw is
\* logged and leads to the lookup of the workflow file
RtDispatch(r) ==
    /\ req[r].pc = "rtDispatch"
    /\ Issue(r, Call("dispatch", WORKFLOW_PATH, req[r].finalBranchName, FALSE))
    /\ \E ans \in Answers :
         LET res == RtMakeGitHubRequest(ans)
             rq  == Noted(req[r], ans) IN
         IF res.ret = "throw"
         THEN Proceed(r, [rq EXCEPT !.pc = "rtWorkflowCheck", !.dispatchError = res.message],
                 << <<"deploy", "failed", <<"Failed to trigger workflow: ">> \o res.message>> >>)
         ELSE RtFinish(r, rq,
                 updateDeployment(deployments, rq.deployment,
                     [status |-> "running",
                      message |-> <<"Bot deployment workflow is now running">>], clock),
                 << <<"deploy", "success",
                      <<"Deployment workflow triggered successfully">> >> >>)
    /\ UNCHANGED <<clock, session, relayVars, forks, fetchVars, httpResp>>

\* the dispatch is retried whatever the lookup returned
RetryWanted_Always(res) == TRUE

\* if (workflowCheck): the dispatch is retried when the lookup returned the file
RetryWanted(res) == res.ret = "data"

\* in the catch of the first dispatch: GET contents/.github/workflows/
\* WORKFLOW_FILE on the branch.  A throw rethrows the dispatch error; a
\* missing file skips the retry and the handler goes on to its end.
RtWorkflowCheck(r) ==
    /\ req[r].pc = "rtWorkflowCheck"
    /\ \E ans \in Answers :
         LET res == RtMakeGitHubRequest(ans)
             rq  == Noted(req[r], ans)
             dispatchError == req[r].dispatchError IN
         CASE res.ret = "throw" ->
                Catch(r, rq, <<>>, deployments, dispatchError)
           [] res.ret # "throw" /\ RetryWanted(res) ->
                Proceed(r, [rq EXCEPT !.pc = "rtRetry"], <<>>)
           [] OTHER -> RtFinish(r, rq, deployments, <<>>)
    /\ UNCHANGED <<clock, session, ghCalls, relayVars, forks, fetchVars, httpResp>>

\* the second dispatch, 2 s later; a throw rethrows the first dispatch error
RtRetry(r) ==
    /\ req[r].pc = "rtRetry"
    /\ Issue(r, Call("dispatch", WORKFLOW_PATH, req[r].finalBranchName, FALSE))
    /\ \E ans \in Answers :
         LET res == RtMakeGitHubRequest(ans)
             rq  == Noted(req[r], ans)
             dispatchError == req[r].dispatchError IN
         IF res.ret = "throw"
         THEN Catch(r, rq, <<>>, deployments, dispatchError)
         ELSE RtFinish(r, rq,
                 updateDeployment(deployments, rq.deployment,
                     [status |-> "running",
                      message |-> <<"Bot deployment workflow is now running (retry successful)">>],
                     clock),
                 << <<"deploy", "success",
                      <<"Deployment workflow triggered successfully (after retry)">> >> >>)
    /\ UNCHANGED <<clock, session, relayVars, forks, fetchVars, httpResp>>

RtDeployStep(r) ==
    \/ RtDeployStart(r)
    \/ RtGetUser(r)
    \/ RtGetFork(r)
    \/ RtCreateFork(r)
    \/ RtBranchCheck(r)
    \/ RtGetMainRef(r)
    \/ RtCreateRef(r)
    \/ RtGetConfig(r)
    \/ RtPutConfig(r)
    \/ RtGetEnv(r)
    \/ RtPutEnv(r)
    \/ RtPutWorkflow(r)
    \/ RtDispatch(r)
    \/ RtWorkflowCheck(r)
    \/ RtRetry(r)

RtDeployNext == \E r \in Requests : RtDeployStep(r)

RtDeploySpec == Init /\ [][RtDeployNext]_vars

\* --------------------------------------------- two deploy requests at once
\* Two requests, r1 of alice's session and r2 of bob's, run their handlers
\* interleaved at every await.  To keep the interleavings countable the
\* inputs are narrowed: r1 names no branch and r2 the branch "d", the
\* generated suffix is "k", GitHub answers 2xx except that the branch lookup
\* may find the branch or not and the dispatch may fail with 500; and the
\* rows of the two requests alternate in the log store at most MaxSwitches
\* times.
Requests2 == {"r1", "r2"}
Sessions2 == {"s1", "s2"}

NarrowAnswers(call) ==
    CASE call = "branchCheck" -> {AnswerOk, AnswerNotFound}
      [] call = "dispatch"    -> {AnswerOk} \cup {a \in AnswerErrors : a.status = 500}
      [] call = ""            -> {NoAnswer}
      [] OTHER                -> {AnswerOk}

Narrow(r, rq) ==
    /\ rq.sessionId = "abc123"
    /\ rq.sess = (IF r = "r1" THEN "s1" ELSE "s2")
    /\ rq.branchName = (IF r = "r1" THEN NullStr ELSE <<"d">>)
    /\ rq.finalBranchName \in {NullStr, <<"d">>, XyloPrefix \o <<"k">>}
    /\ rq.lastAns \in NarrowAnswers(rq.lastCall)

\* how often a row is followed by a row of another deployment
RECURSIVE Switches(_)
Switches(logs) ==
    IF Len(logs) < 2 THEN 0
    ELSE (IF logs[1].deploymentId # logs[2].deploymentId THEN 1 ELSE 0)
         + Switches(Tail(logs))

TwoDeployInit ==
    /\ InitStore
    /\ InitRelay
    /\ session = [s \in Sessions2 |-> IF s = "s1" THEN LoggedIn("alice") ELSE LoggedIn("bob")]
    /\ req = [r \in Requests2 |-> IdleRequest]
    /\ ghCalls = [r \in Requests2 |-> <<>>]
    /\ forks = {}
    /\ InitFetch
    /\ httpResp = NoHttp

TwoDeployNext ==
    \E r \in Requests2 :
        /\ DeployStep(r)
        /\ Narrow(r, req'[r])
        /\ Switches(deploymentLogs') <= MaxSwitches

TwoDeploySpec == TwoDeployInit /\ [][TwoDeployNext]_vars

\* ------------------------------------------------------ the log relay
\* deployment ids a client may name in a subscribe message (0: none given)
SubscribeIds == {1, 2}
Messages == [type : {"subscribe", "ping"}, deploymentId : SubscribeIds \cup {0}]

\* client.readyState: CONNECTING 0, OPEN 1, CLOSING 2, CLOSED 3
ReadyStateNum(st) ==
    CASE st = "none" -> 0 [] st = "open" -> 1 [] st = "closing" -> 2 [] st = "closed" -> 3

LivePcs == {"fetch", "timer"}

\* wss.on('connection')
Connect(w) ==
    /\ readyState[w] = "none"
    /\ readyState' = [readyState EXCEPT ![w] = "open"]
    /\ UNCHANGED <<storeVars, deployVars, activeStreams, tasks, afterClose, httpResp>>

\* activeStreams after ws subscribed to id (lines 157-160)
AddSubscriber(streams, id, w) ==
    [k \in DOMAIN streams \cup {id} |->
        IF k = id
        THEN (IF id \in DOMAIN streams THEN streams[id] ELSE {}) \cup {w}
        ELSE streams[k]]

\* a new invocation of startLogStreaming, up to its first await
NewTask(id, w) ==
    [dep |-> id, sock |-> w, pc |-> "start", status |-> "", first |-> FALSE]

\* ws.on('message'): a subscribe message with a deploymentId registers the
\* socket and calls startLogStreaming; anything else is ignored
OnMessage(w) ==
    /\ readyState[w] = "open"
    /\ Len(tasks) < MaxSubscribes
    /\ \E msg \in Messages :
         IF msg.type = "subscribe" /\ msg.deploymentId # 0
         THEN /\ activeStreams' = AddSubscriber(activeStreams, msg.deploymentId, w)
              /\ tasks' = Append(tasks, NewTask(msg.deploymentId, w))
         ELSE UNCHANGED <<activeStreams, tasks>>
    /\ UNCHANGED <<storeVars, deployVars, readyState, afterClose, httpResp>>

\* the socket leaves the OPEN state; its close event is still to be handled
SocketCloses(w) ==
    /\ readyState[w] = "open"
    /\ readyState' = [readyState EXCEPT ![w] = "closing"]
    /\ UNCHANGED <<storeVars, deployVars, activeStreams, tasks, afterClose, httpResp>>

\* the close handler without its deletion of emptied sets
RemoveSubscriber_KeepEmpty(streams, w) ==
    [k \in DOMAIN streams |-> streams[k] \ {w}]

\* activeStreams after the close handler of ws: ws deleted from every set,
\* sets that became empty deleted from the map
RemoveSubscriber(streams, w) ==
    [k \in {d \in DOMAIN streams : streams[d] \ {w} # {}} |-> streams[k] \ {w}]

\* ws.on('close')
OnClose(w) ==
    /\ readyState[w] = "closing"
    /\ readyState' = [readyState EXCEPT ![w] = "closed"]
    /\ activeStreams' = RemoveSubscriber(activeStreams, w)
    /\ UNCHANGED <<storeVars, deployVars, tasks, afterClose, httpResp>>

SetTask(t, rec) == tasks' = [tasks EXCEPT ![t] = rec]

\* startLogStreaming up to the first GitHub call of its first poll: give
\* up without deployment, clients or token; otherwise call streamLogs() at
\* once, which re-reads the deployment (MemStorage answers both reads
\* without yielding to socket events or timers)
StartLogStreaming(t) ==
    /\ tasks[t].pc = "start"
    /\ LET id  == tasks[t].dep
           dep == getDeployment(deployments, id) IN
       IF \/ dep = <<>>
          \/ id \notin DOMAIN activeStreams
          \/ Cardinality(activeStreams[id]) = 0
          \/ ~Truthy(dep[1].githubToken)
       THEN SetTask(t, [tasks[t] EXCEPT !.pc = "stopped"])
       ELSE SetTask(t, [tasks[t] EXCEPT !.pc = "fetch", !.status = dep[1].status])
    /\ UNCHANGED <<storeVars, deployVars, readyState, activeStreams, afterClose, httpResp>>

\* the readyState test against the wrong constant
Recipients_NotOpen(streams, rs, ts, id) ==
    IF id \in DOMAIN streams /\ Cardinality(streams[id]) > 0
    THEN {w \in streams[id] : ReadyStateNum(rs[w]) = 0}
    ELSE {}

\* a broadcast to every socket that ever subscribed to id, open or not
Recipients_EverSubscribed(streams, rs, ts, id) ==
    {ts[i].sock : i \in {j \in DOMAIN ts : ts[j].dep = id}}

\* the sockets a broadcast for id sends to (lines 283-291)
Recipients(streams, rs, ts, id) ==
    IF id \in DOMAIN streams /\ Cardinality(streams[id]) > 0
    THEN {w \in streams[id] : ReadyStateNum(rs[w]) = WS_OPEN}
    ELSE {}

\* activeStreams.get(id)?.size ?? 0 > 0 parses as size ?? (0 > 0): the
\* size when the set exists, otherwise false; used for its truthiness
StillHasClients(streams, id) ==
    IF id \in DOMAIN streams THEN Cardinality(streams[id]) # 0 ELSE (0 > 0)

\* the status of the deployment ignored
Reschedule_IgnoreStatus(status, stillHasClients) == stillHasClients

\* the condition under which streamLogs calls setTimeout(streamLogs, 3000)
Reschedule(status, stillHasClients) ==
    (status = "running" \/ status = "pending") /\ stillHasClients

\* streamLogs after fetchWorkflowLogs returned: broadcast, then reschedule or
\* stop.  Nothing in its try block throws (fetchWorkflowLogs catches its own
\* errors, send is guarded by readyState), so the retry of its catch block
\* (lines 300-307) is never taken.
Broadcast(t) ==
    /\ tasks[t].pc = "fetch"
    /\ LET id == tasks[t].dep
           to == Recipients(activeStreams, readyState, tasks, id)
           subscribedOnce == {tasks[i].sock : i \in {j \in DOMAIN tasks : tasks[j].dep = id}}
       IN /\ afterClose' = [w \in Sockets |->
                             IF readyState[w] # "closed" THEN afterClose[w]
                             ELSE IF w \in to THEN "sent"
                             ELSE IF w \in subscribedOnce /\ afterClose[w] = "none" THEN "skipped"
                             ELSE afterClose[w]]
          /\ SetTask(t, [tasks[t] EXCEPT
                !.first = @ \/ tasks[t].sock \in to,
                !.pc = IF Reschedule(tasks[t].status, StillHasClients(activeStreams, id))
                       THEN "timer" ELSE "stopped"])
    /\ UNCHANGED <<storeVars, deployVars, readyState, activeStreams, httpResp>>

\* the 3 s timer fires: streamLogs runs again and re-reads the deployment
TimerFires(t) ==
    /\ tasks[t].pc = "timer"
    /\ LET dep == getDeployment(deployments, tasks[t].dep) IN
       IF dep = <<>>
       THEN SetTask(t, [tasks[t] EXCEPT !.pc = "stopped"])
       ELSE SetTask(t, [tasks[t] EXCEPT !.pc = "fetch", !.status = dep[1].status])
    /\ UNCHANGED <<storeVars, deployVars, readyState, activeStreams, afterClose, httpResp>>

\* the deploy request that created the deployment ends in its catch block
\* (lines 1131-1135) ...
DeployEndsFailed(id) ==
    /\ deployments[id].status = "running"
    /\ deployments[id].workflowUrl = NullStr
    /\ deployments' = updateDeployment(deployments, id,
                         [status |-> "failed", message |-> <<"Network Error">>], clock)
    /\ UNCHANGED <<deploymentLogs, clock, deployVars, relayVars, httpResp>>

\* ... or with the workflow dispatched (lines 1049-1052, 1114-1117)
DeployEndsDispatched(id) ==
    /\ deployments[id].status = "running"
    /\ deployments[id].workflowUrl = NullStr
    /\ deployments' = DispatchedRecord(deployments, id, XyloPrefix,
                                       WorkflowUrl(deployments[id].githubUsername), clock)
    /\ UNCHANGED <<deploymentLogs, clock, deployVars, relayVars, httpResp>>

PollStep(t) == StartLogStreaming(t) \/ Broadcast(t) \/ TimerFires(t)

RelayNext ==
    \/ \E w \in Sockets : Connect(w) \/ OnMessage(w) \/ SocketCloses(w) \/ OnClose(w)
    \/ \E t \in DOMAIN tasks : PollStep(t)
    \/ \E id \in DOMAIN deployments : DeployEndsFailed(id) \/ DeployEndsDispatched(id)

\* the relay starts with one deployment, created by a deploy request of
\* alice that is still under way
RelayInit ==
    /\ deployments = createDeployment(<<>>,
           [ sessionId |-> "abc123", branchName |-> NullStr, githubUsername |-> "alice",
             repositoryName |-> REPO_NAME, githubToken |-> TokenOf("alice"),
             status |-> "running", message |-> <<"Deployment started">> ], 0)
    /\ deploymentLogs = <<>>
    /\ clock = 0
    /\ InitRelay
    /\ session = [s \in Sessions |-> LoggedIn("alice")]
    /\ req = [r \in Requests |-> IdleRequest]
    /\ ghCalls = [r \in Requests |-> <<>>]
    /\ forks = {}
    /\ InitFetch
    /\ httpResp = NoHttp

RelaySpec == RelayInit /\ [][RelayNext]_vars

\* every poll step that is due is eventually taken: timers fire and the
\* awaited storage and GitHub calls return
RelayFairSpec ==
    /\ RelaySpec
    /\ \A t \in 1..MaxSubscribes : WF_vars(t \in DOMAIN tasks /\ PollStep(t))

\* ------------------------------------------ the store and its read endpoint
\* GET /api/deployments/:id/logs for session s
GetLogsResponse(s, id) ==
    IF session[s].githubUsername = ""
    THEN [kind |-> "unauthenticated", status |-> 401, id |-> id, body |-> <<>>]
    ELSE LET dep == getDeployment(deployments, id) IN
         IF dep = <<>> \/ dep[1].githubUsername # session[s].githubUsername
         THEN [kind |-> "notfound", status |-> 404, id |-> id, body |-> <<>>]
         ELSE [kind |-> "logs", status |-> 200, id |-> id,
               body |-> getDeploymentLogs(deploymentLogs, id)]

GetLogs(s, id) ==
    /\ httpResp' = GetLogsResponse(s, id)
    /\ UNCHANGED <<storeVars, deployVars, relayVars>>

\* the createDeployment call of a deploy request of user u (lines 586-594)
StoreDeployment(u) ==
    /\ Len(deployments) < MaxDeployments
    /\ deployments' = createDeployment(deployments,
           [ sessionId |-> "abc123", branchName |-> NullStr, githubUsername |-> u,
             repositoryName |-> REPO_NAME, githubToken |-> TokenOf(u),
             status |-> "running", message |-> <<"Deployment started">> ], clock)
    /\ httpResp' = NoHttp
    /\ UNCHANGED <<deploymentLogs, clock, deployVars, relayVars>>

\* a logStep call of the deploy request that owns deployment id (lines 597-604)
StoreLogStep(id) ==
    /\ Len(deploymentLogs) < MaxLogWrites
    /\ deploymentLogs' = logSteps(deploymentLogs, id,
           << <<"init", "running", <<"Getting user information...">> >> >>, clock)
    /\ httpResp' = NoHttp
    /\ UNCHANGED <<deployments, clock, deployVars, relayVars>>

\* the wall clock behind new Date(): it advances, and it may be set back
ClockMoves ==
    /\ \E now \in ClockValues : now # clock /\ clock' = now
    /\ httpResp' = NoHttp
    /\ UNCHANGED <<deployments, deploymentLogs, deployVars, relayVars>>

StoreNext ==
    \/ \E u \in Users : StoreDeployment(u)
    \/ \E id \in DOMAIN deployments : StoreLogStep(id)
    \/ ClockMoves
    \/ \E s \in Sessions, id \in 1..(MaxDeployments + 1) : GetLogs(s, id)

StoreSpec == Init /\ [][StoreNext]_vars

\* ------------------------------------- OAuth login and repository setup
\* Math.random().toString(36).substring(2, 15); "" stands for undefined: a
\* session that holds no state, a callback without state parameter
StateValues == {"st1", "st2"}
NoState == ""

\* what the token endpoint of GitHub hands out for the code of a callback:
\* the token of a user, or nothing (no access_token, or the call fails)
TokenGrants == {NullStr} \cup {TokenOf(u) : u \in Users}

\* GET /api/auth: a fresh state value in the session, redirect to GitHub
AuthStart(s) ==
    /\ \E st \in StateValues :
         /\ session' = [session EXCEPT ![s].state = st]
         /\ httpResp' = [kind |-> "authorize", status |-> 302, state |-> st]
    /\ UNCHANGED <<storeVars, req, ghCalls, forks, fetchVars, relayVars>>

\* state !== req.session.state
StateMismatch(queryState, sessionState) == queryState # sessionState

\* the session after lines 411-414: the token is stored, then
\* userResponse.login is read (of null: a TypeError, the token stays)
SessionAfterLogin(sess, accessToken, res) ==
    CASE res.ret = "throw" -> sess
      [] res.ret = "null"  -> [sess EXCEPT !.githubToken = accessToken]
      [] res.ret = "data"  -> [sess EXCEPT !.githubToken = accessToken,
                                           !.githubUsername = LoginOf(accessToken)]

\* GET /api/auth/callback?code=..&state=..
AuthCallback(s) ==
    /\ \E queryState \in StateValues \cup {NoState}, accessToken \in TokenGrants,
          ans \in Answers :
         LET res == makeGitHubRequest(ans) IN
         IF StateMismatch(queryState, session[s].state)
         THEN /\ httpResp' = [kind |-> "callback", status |-> 302, state |-> queryState,
                              error |-> <<"Authentication failed. Please try again.">>]
              /\ session' = session
         ELSE IF ~Truthy(accessToken)
         THEN /\ httpResp' = [kind |-> "callback", status |-> 302, state |-> queryState,
                              error |-> <<"Failed to obtain access token">>]
              /\ session' = session
         ELSE /\ session' = [session EXCEPT ![s] = SessionAfterLogin(@, accessToken, res)]
              /\ httpResp' = [kind |-> "callback", status |-> 302, state |-> queryState,
                              error |-> CASE res.ret = "data"  -> <<>>
                                          [] res.ret = "null"  -> TypeErrorMsg
                                          [] res.ret = "throw" -> res.message]
    /\ UNCHANGED <<storeVars, req, ghCalls, forks, fetchVars, relayVars>>

\* POST /api/auth/logout: req.session.destroy
Logout(s) ==
    /\ session' = [session EXCEPT ![s] = NoSession]
    /\ httpResp' = [kind |-> "logout", status |-> 200]
    /\ UNCHANGED <<storeVars, req, ghCalls, forks, fetchVars, relayVars>>

\* the answer of POST /api/setup; forkCalls counts its POST .../forks calls,
\* hadFork tells whether the user's repository was a fork when it was called
SetupResponse(status, alreadyExists, forkCalls, hadFork) ==
    [kind |-> "setup", status |-> status, alreadyExists |-> alreadyExists,
     forkCalls |-> forkCalls, hadFork |-> hadFork]

\* the probe of the setup endpoint (lines 461-473): does it return early
\* with alreadyExists?  fork.fork of null throws into the empty catch.
SetupFindsFork(res, isUpstreamFork) == res.ret = "data" /\ isUpstreamFork

\* POST /api/setup: probe repos/<username>/REPO_NAME, else create the fork.
\* A 2xx answer of the probe tells truthfully whether the repository is a
\* fork of the upstream; a 2xx answer of the creation creates it for the
\* owner of the token.
Setup(s) ==
    /\ LET token    == session[s].githubToken
           username == session[s].githubUsername
           hadFork  == username \in forks IN
       IF ~Truthy(token) \/ username = ""
       THEN /\ httpResp' = [kind |-> "unauthenticated", status |-> 401]
            /\ forks' = forks
       ELSE \E probe \in Answers, creation \in Answers :
              IF SetupFindsFork(makeGitHubRequest(probe), hadFork)
              THEN /\ httpResp' = SetupResponse(200, TRUE, 0, hadFork)
                   /\ forks' = forks
              ELSE LET res == makeGitHubRequest(creation) IN
                   /\ forks' = IF res.ret = "data" THEN forks \cup {LoginOf(token)} ELSE forks
                   /\ httpResp' = SetupResponse(IF res.ret = "data" THEN 200 ELSE 500,
                                                FALSE, 1, hadFork)
    /\ UNCHANGED <<storeVars, session, req, ghCalls, fetchVars, relayVars>>

AccountNext ==
    \E s \in Sessions : AuthStart(s) \/ AuthCallback(s) \/ Logout(s) \/ Setup(s)

\* a session is new, or it logged in earlier through the initiation endpoint
AccountInit ==
    /\ InitStore
    /\ InitRelay
    /\ session \in [Sessions -> {NoSession}
                        \cup {[LoggedIn(u) EXCEPT !.state = "st1"] : u \in Users}]
    /\ req = [r \in Requests |-> IdleRequest]
    /\ ghCalls = [r \in Requests |-> <<>>]
    /\ forks \in SUBSET Users
    /\ InitFetch
    /\ httpResp = NoHttp

AccountSpec == AccountInit /\ [][AccountNext]_vars

\* ------------------------------------------------- fetchWorkflowLogs
MaxJobs == 2            \* jobs of a workflow run

NullField == "<null>"   \* a JSON null in an answer of GitHub

\* a step of a job as GET actions/runs/<id>/jobs lists it; started_at is
\* the instant the date string denotes
Step(number, status, conclusion, started_at) ==
    [number |-> number, status |-> status, conclusion |-> conclusion,
     started_at |-> started_at]

\* jobs GitHub may list: steps done, under way or queued, started in or out
\* of the order of their numbers, and a job listed without steps
JobSamples ==
    { [id |-> 1, hasSteps |-> TRUE,
       steps |-> << Step(1, "completed", "success", 2),
                    Step(2, "in_progress", NullField, 3) >>],
      [id |-> 2, hasSteps |-> TRUE,
       steps |-> << Step(1, "completed", "success", 1),
                    Step(2, "queued", NullField, 0) >>],
      [id |-> 3, hasSteps |-> TRUE,
       steps |-> << Step(1, "completed", "failure", 3),
                    Step(2, "completed", "skipped", 1) >>],
      [id |-> 4, hasSteps |-> TRUE,
       steps |-> << Step(1, "queued", NullField, 0) >>],
      [id |-> 5, hasSteps |-> TRUE, steps |-> <<>>],
      [id |-> 6, hasSteps |-> FALSE, steps |-> <<>>] }

\* the job lists of a run: up to MaxJobs jobs with different ids
JobLists ==
    UNION { {js \in [1..n -> JobSamples] : \A i, j \in 1..n : i # j => js[i].id # js[j].id}
            : n \in 0..MaxJobs }

\* an earlier run of the fork, listed behind the latest one
OlderRun ==
    [id |-> 7, jobs |-> << [id |-> 9, hasSteps |-> TRUE,
                            steps |-> << Step(1, "completed", "success", 0) >>] >>]

\* what the fork has run: nothing, one run, or a run and an older one
RunLists ==
    {<<>>} \cup { <<[id |-> 8, jobs |-> js]>> : js \in JobLists }
           \cup { <<[id |-> 8, jobs |-> js], OlderRun>> : js \in JobLists }

\* only steps that have a conclusion are listed
IncludeStep_ConcludedOnly(step) == step.conclusion # NullField

\* step.conclusion !== null || step.status === 'in_progress'
IncludeStep(step) == step.conclusion # NullField \/ step.status = "in_progress"

\* the entry pushed for a step (lines 215-224)
LogEntry(run, job, step) ==
    [ id         |-> <<job.id, step.number>>,
      timestamp  |-> step.started_at,
      status     |-> IF step.conclusion # NullField THEN step.conclusion ELSE step.status,
      runId      |-> run.id,
      jobId      |-> job.id,
      stepNumber |-> step.number ]

\* the inner loop: the entries of the steps of one job
RECURSIVE StepEntries(_, _, _)
StepEntries(run, job, steps) ==
    IF steps = <<>> THEN <<>>
    ELSE (IF IncludeStep(Head(steps)) THEN <<LogEntry(run, job, Head(steps))>> ELSE <<>>)
         \o StepEntries(run, job, Tail(steps))

\* the outer loop: for (const job of jobs.jobs) if (job.steps) ...
RECURSIVE JobEntries(_, _)
JobEntries(run, jobs) ==
    IF jobs = <<>> THEN <<>>
    ELSE (IF Head(jobs).hasSteps THEN StepEntries(run, Head(jobs), Head(jobs).steps) ELSE <<>>)
         \o JobEntries(run, Tail(jobs))

\* fetchWorkflowLogs(id): the answers it got (NoAnswer for a call it did
\* not make) and the list it returns.  Every throw ends in its catch, which
\* returns the empty list.
fetchWorkflowLogs(deps, runs, id, runsAns, jobsAns) ==
    LET dep     == getDeployment(deps, id)
        runsRes == makeGitHubRequest(runsAns)
        jobsRes == makeGitHubRequest(jobsAns)
        none    == [NoFetch EXCEPT !.id = id]
    IN IF dep = <<>> \/ ~Truthy(dep[1].workflowUrl) THEN none
       ELSE IF runsRes.ret # "data" \/ Len(runs) = 0
       THEN [none EXCEPT !.runsAnswer = runsAns]
       ELSE IF jobsRes.ret # "data" \/ Len(runs[1].jobs) = 0
       THEN [none EXCEPT !.runsAnswer = runsAns, !.jobsAnswer = jobsAns]
       ELSE [none EXCEPT !.runsAnswer = runsAns, !.jobsAnswer = jobsAns,
                         !.logs = SortByTimestamp(JobEntries(runs[1], runs[1].jobs))]

\* streamLogs calls fetchWorkflowLogs for the deployment id of its
\* subscription; the list is the 'logs' field of the message it sends
FetchWorkflowLogs(id) ==
    /\ \E runsAns \in Answers, jobsAns \in Answers :
         workflowLogs' = fetchWorkflowLogs(deployments, workflowRuns, id, runsAns, jobsAns)
    /\ UNCHANGED <<storeVars, session, req, ghCalls, forks, envFile, workflowRuns,
                   relayVars, httpResp>>

LogsNext == \E id \in SubscribeIds : FetchWorkflowLogs(id)

\* one deployment of alice, dispatched or not, and what her fork has run
LogsInit ==
    /\ \E dispatched \in BOOLEAN :
         LET deps == createDeployment(<<>>,
                 [ sessionId |-> "abc123", branchName |-> NullStr, githubUsername |-> "alice",
                   repositoryName |-> REPO_NAME, githubToken |-> TokenOf("alice"),
                   status |-> "running", message |-> <<"Deployment started">> ], 0)
         IN deployments = IF dispatched
                          THEN DispatchedRecord(deps, 1, XyloPrefix, WorkflowUrl("alice"), 0)
                          ELSE deps
    /\ deploymentLogs = <<>>
    /\ clock = 0
    /\ InitRelay
    /\ session = [s \in Sessions |-> LoggedIn("alice")]
    /\ req = [r \in Requests |-> IdleRequest]
    /\ ghCalls = [r \in Requests |-> <<>>]
    /\ forks = {"alice"}
    /\ envFile = EnvFile(NoFile)
    /\ workflowRuns \in RunLists
    /\ workflowLogs = NoFetch
    /\ httpResp = NoHttp

LogsSpec == LogsInit /\ [][LogsNext]_vars

\* ------------------------------------------------- the .env upsert
MaxEnvLen == 4          \* pieces of text in a .env file

\* A .env file is a tuple of pieces of text: the word SESSION_ID, an equals
\* sign, a blank, a line break, or a piece "x" of any other text without
\* blanks, equals signs and line breaks.
SESSION_ID == "SESSION_ID"
EnvPieces == {SESSION_ID, "=", " ", "\n", "x"}
EnvContents == UNION { [1..n -> EnvPieces] : n \in 0..MaxEnvLen }

\* \s and . of the regular expression
IsSpace(c) == c \in {" ", "\n"}
IsDot(c) == c # "\n"

\* the position behind the longest run of blanks and line breaks from i on
RECURSIVE SkipSpace(_, _)
SkipSpace(s, i) == IF i <= Len(s) /\ IsSpace(s[i]) THEN SkipSpace(s, i + 1) ELSE i

\* the position behind the rest of the line from i on
RECURSIVE SkipLine(_, _)
SkipLine(s, i) == IF i <= Len(s) /\ IsDot(s[i]) THEN SkipLine(s, i + 1) ELSE i

\* /SESSION_ID\s*=\s*.*/ at the head of s: how many pieces it matches (0:
\* no match).  Every quantifier is greedy and none has to give back.
MatchLen(s) ==
    IF s = <<>> \/ Head(s) # SESSION_ID THEN 0
    ELSE LET eq == SkipSpace(s, 2) IN
         IF eq > Len(s) \/ s[eq] # "=" THEN 0
         ELSE SkipLine(s, SkipSpace(s, eq + 1)) - 1

\* the assignment the handler writes: `SESSION_ID=${sessionId}`
Assignment(sessionId) == <<SESSION_ID, "=", sessionId>>

\* String.prototype.replace with the global regular expression
RECURSIVE ReplaceAll(_, _)
ReplaceAll(s, sessionId) ==
    IF s = <<>> THEN <<>>
    ELSE IF MatchLen(s) > 0
    THEN Assignment(sessionId) \o ReplaceAll(SubSeq(s, MatchLen(s) + 1, Len(s)), sessionId)
    ELSE <<Head(s)>> \o ReplaceAll(Tail(s), sessionId)

\* updatedEnvContent (lines 817-828)
UpdatedEnvContent(existingEnvContent, sessionId) ==
    IF Includes(existingEnvContent, SESSION_ID)
    THEN ReplaceAll(existingEnvContent, sessionId)
    ELSE existingEnvContent
         \o (IF existingEnvContent # <<>> THEN <<"\n">> ELSE <<>>)
         \o Assignment(sessionId)

\* The .env part of step 4 with the content of the file: GET contents/.env
\* (any failure, and envFileData.sha of null, leave existingEnvContent ''),
\* then PUT the updated content.  GitHub answers the GET with 2xx only if
\* the file exists and with 404 only if it does not; it accepts the PUT of
\* an existing file only with the sha the GET delivered.
EnvUpsert ==
    /\ ~envFile.written
    /\ \E sessionId \in SessionIdInputs \ {""}, getAns \in Answers, putAns \in Answers :
         LET exists   == envFile.content # NoFile
             existingEnvContent == IF getAns.kind = "ok" THEN envFile.content ELSE <<>>
             envSha   == getAns.kind = "ok"
         IN /\ getAns.kind = "ok" => exists
            /\ getAns = AnswerNotFound => ~exists
            /\ putAns.kind = "ok" => (~exists \/ envSha)
            /\ envFile' = IF putAns.kind = "ok"
                          THEN [prior |-> envFile.content,
                                content |-> UpdatedEnvContent(existingEnvContent, sessionId),
                                written |-> TRUE]
                          ELSE envFile
    /\ UNCHANGED <<storeVars, session, req, ghCalls, forks, workflowRuns, workflowLogs,
                   relayVars, httpResp>>

\* the user edits .env on the branch between two deploy requests
EnvEdited ==
    /\ envFile.written
    /\ \E c \in EnvContents \cup {NoFile} : envFile' = EnvFile(c)
    /\ UNCHANGED <<storeVars, session, req, ghCalls, forks, workflowRuns, workflowLogs,
                   relayVars, httpResp>>

EnvNext == EnvUpsert \/ EnvEdited

\* the branch carries any .env file of up to MaxEnvLen pieces, or none
EnvInit ==
    /\ InitStore
    /\ InitRelay
    /\ session = [s \in Sessions |-> LoggedIn("alice")]
    /\ req = [r \in Requests |-> IdleRequest]
    /\ ghCalls = [r \in Requests |-> <<>>]
    /\ forks = {"alice"}
    /\ envFile \in {EnvFile(c) : c \in EnvContents \cup {NoFile}}
    /\ workflowRuns = <<>>
    /\ workflowLogs = NoFetch
    /\ httpResp = NoHttp

EnvSpec == EnvInit /\ [][EnvNext]_vars

\* --------------------------------------------- the three read endpoints
\* GET /api/deployments for session s
GetUserDeploymentsResponse(s) ==
    IF session[s].githubUsername = ""
    THEN [kind |-> "unauthenticated", status |-> 401, id |-> NoDeployment, body |-> <<>>]
    ELSE [kind |-> "list", status |-> 200, id |-> NoDeployment,
          body |-> getDeploymentsByUser(deployments, session[s].githubUsername)]

GetUserDeployments(s) ==
    /\ httpResp' = GetUserDeploymentsResponse(s)
    /\ UNCHANGED <<storeVars, deployVars, relayVars>>

\* the owner of the deployment is not compared with the session
GetSingleDeploymentResponse_AnyOwner(s, id) ==
    IF session[s].githubUsername = ""
    THEN [kind |-> "unauthenticated", status |-> 401, id |-> id, body |-> <<>>]
    ELSE LET dep == getDeployment(deployments, id) IN
         IF dep = <<>>
         THEN [kind |-> "notfound", status |-> 404, id |-> id, body |-> <<>>]
         ELSE [kind |-> "deployment", status |-> 200, id |-> id, body |-> dep]

\* GET /api/deployments/:id for session s
GetSingleDeploymentResponse(s, id) ==
    IF session[s].githubUsername = ""
    THEN [kind |-> "unauthenticated", status |-> 401, id |-> id, body |-> <<>>]
    ELSE LET dep == getDeployment(deployments, id) IN
         IF dep = <<>> \/ dep[1].githubUsername # session[s].githubUsername
         THEN [kind |-> "notfound", status |-> 404, id |-> id, body |-> <<>>]
         ELSE [kind |-> "deployment", status |-> 200, id |-> id, body |-> dep]

GetSingleDeployment(s, id) ==
    /\ httpResp' = GetSingleDeploymentResponse(s, id)
    /\ UNCHANGED <<storeVars, deployVars, relayVars>>

\* a deploy request of session s up to its first await on GitHub: the
\* record and the 'init' row (lines 577-607)
SessionDeploys(s) ==
    /\ Len(deployments) < MaxDeployments
    /\ Truthy(session[s].githubToken)
    /\ session[s].githubUsername # ""
    /\ LET deps == createDeployment(deployments,
               [ sessionId |-> "abc123", branchName |-> NullStr,
                 githubUsername |-> session[s].githubUsername,
                 repositoryName |-> REPO_NAME, githubToken |-> session[s].githubToken,
                 status |-> "running", message |-> <<"Deployment started">> ], clock)
       IN /\ deployments' = deps
          /\ deploymentLogs' = logSteps(deploymentLogs, deps[Len(deps)].id,
                 << <<"init", "running", <<"Getting user information...">> >> >>, clock)
    /\ httpResp' = NoHttp
    /\ UNCHANGED <<clock, deployVars, relayVars>>

\* A browser session logs in as one user or another, deploys, reads and
\* logs out.  The endpoints read nothing of a session but its data, so the
\* session stands for every session that holds the same login.
ReadNext ==
    \E s \in Sessions :
        \/ AuthStart(s)
        \/ AuthCallback(s)
        \/ Logout(s)
        \/ SessionDeploys(s)
        \/ GetUserDeployments(s)
        \/ \E id \in 1..(MaxDeployments + 1) : GetLogs(s, id) \/ GetSingleDeployment(s, id)

ReadInit ==
    /\ InitStore
    /\ InitRelay
    /\ session = [s \in Sessions |-> NoSession]
    /\ req = [r \in Requests |-> IdleRequest]
    /\ ghCalls = [r \in Requests |-> <<>>]
    /\ forks = {}
    /\ InitFetch
    /\ httpResp = NoHttp

ReadSpec == ReadInit /\ [][ReadNext]_vars

\* --------------------------- two deploy requests that name the same branch
\* Two requests of alice's session name the branch "d" and run interleaved
\* at every await.  GitHub answers 2xx, except that the branch lookup may
\* find the branch or not and that the creation of the branch may fail
\* with 404 or with another error; it creates the branch for one of the
\* two requests at most.
SameBranchAnswers(call) ==
    CASE call = "branchCheck" -> {AnswerOk, AnswerNotFound}
      [] call = "createRef"   -> {AnswerOk, AnswerNotFound}
                                 \cup {a \in AnswerErrors : a.status = 500}
      [] call = ""            -> {NoAnswer}
      [] OTHER                -> {AnswerOk}

SameBranchNarrow(rq) ==
    /\ rq.sessionId = "abc123"
    /\ rq.sess = "s1"
    /\ rq.branchName = <<"d">>
    /\ rq.finalBranchName \in {NullStr, <<"d">>}
    /\ rq.lastAns \in SameBranchAnswers(rq.lastCall)

\* git refuses to create a reference that exists
OneRefCreated(rqs) == ~(\A r \in DOMAIN rqs : rqs[r].refCreated)

SameBranchInit ==
    /\ InitStore
    /\ InitRelay
    /\ session = [s \in Sessions |-> LoggedIn("alice")]
    /\ req = [r \in Requests2 |-> IdleRequest]
    /\ ghCalls = [r \in Requests2 |-> <<>>]
    /\ forks = {"alice"}
    /\ InitFetch
    /\ httpResp = NoHttp

SameBranchNext ==
    \E r \in Requests2 :
        /\ DeployStep(r)
        /\ SameBranchNarrow(req'[r])
        /\ OneRefCreated(req')
        /\ Switches(deploymentLogs') <= MaxSwitches

SameBranchSpec == SameBranchInit /\ [][SameBranchNext]_vars

\* ============================================================ properties
LogStatuses == {"pending", "running", "success", "failed", "warning"}
TerminalStatuses == {"success", "failed", "warning"}

DeploymentOf(r) == deployments[req[r].deployment]

BranchMutations == {"createRef", "putFile", "dispatch"}

\* C2: when the existence check finds the requested branch, the request
\* fails and it issues no call that creates a branch, writes a file or
\* dispatches a workflow, before or after the check.
C2_ExistingBranchNoMutation ==
    \A r \in Requests :
        req[r].branchFound =>
            /\ req[r].pc = "done"
            /\ DeploymentOf(r).status = "failed"
            /\ req[r].response.kind = "error"
            /\ \A i \in DOMAIN ghCalls[r] : ghCalls[r][i].op \notin BranchMutations

C2_Witness ==
    \E r \in Requests :
        /\ req[r].branchFound
        /\ req[r].response.error = BranchExistsMsg(req[r].finalBranchName)

LiveTasks(id) == {t \in DOMAIN tasks : tasks[t].dep = id /\ tasks[t].pc \in LivePcs}

\* C3: at any time at most one poll loop (a pending timer or a poll in
\* flight) exists per deployment id.
C3_OneLoopPerDeployment ==
    \A id \in SubscribeIds : Cardinality(LiveTasks(id)) <= 1

\* C4 as stated: whenever the streaming started by a subscription has run
\* its first poll or has given up, and the subscribing socket is still
\* open, that socket was sent a 'logs' message by that first poll - for
\* every id the socket may name.
C4_FirstLogsAnyId ==
    \A t \in DOMAIN tasks :
        (tasks[t].pc \in {"timer", "stopped"} /\ readyState[tasks[t].sock] = "open")
            => tasks[t].first

\* C4, amended: the same for every id that names a stored deployment; the
\* first poll is reached without a timer, and it is eventually run.
C4_FirstLogsStoredId ==
    /\ [](\A t \in DOMAIN tasks :
            (tasks[t].dep \in DOMAIN deployments
                /\ tasks[t].pc \in {"timer", "stopped"}
                /\ readyState[tasks[t].sock] = "open") => tasks[t].first)
    /\ [][\A t \in DOMAIN tasks :
            (tasks[t].pc = "timer" /\ tasks[t].first = FALSE) => tasks'[t].first = FALSE]_vars
    /\ \A t \in 1..MaxSubscribes :
          (t \in DOMAIN tasks /\ tasks[t].dep \in DOMAIN deployments)
             ~> (t \in DOMAIN tasks
                   /\ (tasks[t].first \/ readyState[tasks[t].sock] # "open"))

C4_Witness ==
    \E t \in DOMAIN tasks :
        /\ tasks[t].dep \in DOMAIN deployments
        /\ tasks[t].first
        /\ readyState[tasks[t].sock] = "open"

\* C5: after the close handler of a socket has run, no 'logs' message is
\* sent to that socket, neither by polls scheduled later nor by polls that
\* were in flight when it closed.
C5_NoLogsAfterClose ==
    \A w \in Sockets : afterClose[w] # "sent"

\* a broadcast for an id the socket had subscribed to ran after its close
C5_Witness ==
    \E w \in Sockets : readyState[w] = "closed" /\ afterClose[w] = "skipped"

\* the deployment is neither pending nor running, or the id has no subscribers
NothingToPoll(id) ==
    \/ id \notin DOMAIN activeStreams
    \/ id \in DOMAIN deployments /\ deployments[id].status \notin {"pending", "running"}

\* C6: a poll schedules the next one only if the status it read is
\* 'pending' or 'running' and the id has subscribers at that moment;
\* otherwise the loop ends for good.  Hence polling for a deployment that is
\* no longer pending/running stops, and polling for an id without
\* subscribers stops unless somebody subscribes again.
C6_RescheduleOnlyWhileActive ==
    /\ [][\A t \in DOMAIN tasks :
            /\ (tasks[t].pc # "timer" /\ tasks'[t].pc = "timer") =>
                  /\ tasks[t].pc = "fetch"
                  /\ tasks[t].status \in {"pending", "running"}
                  /\ tasks[t].dep \in DOMAIN activeStreams
                  /\ activeStreams[tasks[t].dep] # {}
            /\ (tasks[t].pc = "fetch" /\ tasks'[t].pc # "fetch"
                  /\ ~(/\ tasks[t].status \in {"pending", "running"}
                       /\ tasks[t].dep \in DOMAIN activeStreams
                       /\ activeStreams[tasks[t].dep] # {})) => tasks'[t].pc = "stopped"
            /\ tasks[t].pc = "stopped" => tasks'[t].pc = "stopped"]_vars
    /\ \A id \in SubscribeIds : NothingToPoll(id) ~> (LiveTasks(id) = {} \/ ~NothingToPoll(id))

\* a loop ended because the deployment had failed, another because its
\* last subscriber had closed
C6_Witness ==
    /\ \E t \in DOMAIN tasks :
          tasks[t].pc = "stopped" /\ tasks[t].first /\ tasks[t].status = "failed"
    /\ \E t \in DOMAIN tasks :
          /\ tasks[t].pc = "stopped" /\ tasks[t].status = "running"
          /\ tasks[t].dep \notin DOMAIN activeStreams

RowsOf(r) == Filter(deploymentLogs, req[r].deployment)

\* C7: every DeploymentLog row a deploy request writes has a status in
\* {pending, running, success, failed, warning}.
C7_LogStatusDomain ==
    \A i \in DOMAIN deploymentLogs : deploymentLogs[i].status \in LogStatuses

\* C8: for every step of which a finished deploy request wrote a 'running'
\* row, it later wrote a row of the same step with a terminal status,
\* provided its GitHub calls returned (here: all answered 2xx, the branch
\* probe 404).
C8_RunningStepsTerminate ==
    \A r \in Requests :
        (req[r].pc = "done" /\ req[r].deployment # NoDeployment /\ ~req[r].nonOk) =>
            \A i \in DOMAIN RowsOf(r) :
                RowsOf(r)[i].status = "running" =>
                    \E j \in DOMAIN RowsOf(r) :
                        /\ j > i
                        /\ RowsOf(r)[j].step = RowsOf(r)[i].step
                        /\ RowsOf(r)[j].status \in TerminalStatuses

\* C9: the list the get-logs endpoint returns for a deployment holds exactly
\* the stored rows of that deployment, each once, by non-decreasing timestamp.
C9_LogsOfDeploymentSorted ==
    httpResp.kind = "logs" =>
        LET body == httpResp.body
            mine == {k \in DOMAIN deploymentLogs : deploymentLogs[k].deploymentId = httpResp.id}
        IN /\ \A i \in DOMAIN body :
                 body[i].id \in mine /\ deploymentLogs[body[i].id] = body[i]
           /\ \A k \in mine : \E i \in DOMAIN body : body[i].id = k
           /\ Len(body) = Cardinality(mine)
           /\ \A i, j \in DOMAIN body : i < j => body[i].timestamp <= body[j].timestamp

\* a list that is not in insertion order, beside rows of another deployment
C9_Witness ==
    /\ httpResp.kind = "logs"
    /\ Len(httpResp.body) >= 2
    /\ httpResp.body[1].id > httpResp.body[2].id
    /\ \E k \in DOMAIN deploymentLogs : deploymentLogs[k].deploymentId # httpResp.id

\* branchName absent or blank
BlankBranch(bn) == bn = NullStr \/ \A i \in DOMAIN bn : bn[i] = " "

\* C10: a deploy request without branch name all of whose GitHub calls
\* succeed (the branch probe finding the name free) keeps its record
\* 'running' from creation on, and ends with success:true, a branch name
\* prefixed 'xylo-', the record's branchName equal to it and its workflowUrl
\* https://github.com/<user>/<repo>/actions.
C10_GeneratedBranchSuccess ==
    \A r \in Requests :
        (req[r].deployment # NoDeployment /\ BlankBranch(req[r].branchName) /\ ~req[r].nonOk) =>
            /\ DeploymentOf(r).status = "running"
            /\ req[r].pc = "done" =>
                 /\ req[r].response.kind = "success"
                 /\ req[r].response.success
                 /\ HasPrefix(req[r].response.branch, XyloPrefix)
                 /\ DeploymentOf(r).branchName = req[r].response.branch
                 /\ DeploymentOf(r).workflowUrl =
                       <<"https://github.com/", DeploymentOf(r).githubUsername, "/",
                         DeploymentOf(r).repositoryName, "/actions">>
                 /\ req[r].response.workflowUrl = DeploymentOf(r).workflowUrl

C10_Witness ==
    \E r \in Requests :
        /\ req[r].pc = "done" /\ ~req[r].nonOk
        /\ req[r].branchName = <<" ">>
        /\ req[r].response.success
        /\ Len(req[r].response.branch) = 11

\* did the latest GitHub call of request r throw?
LastCallThrew(r) ==
    req[r].lastAns.kind # "none" /\ makeGitHubRequest(req[r].lastAns).ret = "throw"

\* C11: a deploy request whose workflow-dispatch call GitHub answered with
\* 404 ends with its record 'failed', a 'deploy' log row with status
\* 'failed', and a failure response; it does not answer success.
C11_Dispatch404Fails ==
    \A r \in Requests :
        (req[r].pc = "done" /\ req[r].lastCall = "dispatch" /\ req[r].lastAns.status = 404) =>
            /\ DeploymentOf(r).status = "failed"
            /\ \E i \in DOMAIN RowsOf(r) :
                  RowsOf(r)[i].step = "deploy" /\ RowsOf(r)[i].status = "failed"
            /\ req[r].response.kind = "error"
            /\ ~req[r].response.success

\* C12: when the workflow-dispatch call of a deploy request threw, the
\* message of the Deployment record, once the request has completed, is the
\* error message followed by the remediation instructions of the dispatch
\* error handler.
C12_DispatchFailureKeepsInstructions ==
    \A r \in Requests :
        (req[r].pc = "done" /\ req[r].lastCall = "dispatch" /\ LastCallThrew(r)) =>
            /\ Includes(DeploymentOf(r).message, DispatchInstructions[1])
            /\ DeploymentOf(r).message =
                  req[r].response.error \o <<"\n\n">> \o DispatchInstructions

\* the GitHub calls of the fork, branch, configuration-file,
\* environment-file and workflow-file steps, by position
StepCalls == {"getFork", "createFork", "branchCheck", "getMainRef", "createRef",
              "getConfig", "putConfig", "getEnv", "putEnv", "getWorkflow", "putWorkflow"}
\* those of them the handler makes outside any try block of its own ...
AbortingCalls == {"createFork", "branchCheck", "getMainRef", "createRef",
                  "putConfig", "putWorkflow"}
\* ... and those whose failure a try/catch within the step swallows
SwallowedCalls == StepCalls \ AbortingCalls

\* C14 as stated: whenever the latest GitHub call of a request is a call of
\* the fork, branch, configuration-file, environment-file or workflow-file
\* step and it threw, the request has ended with its record 'failed' (and so
\* issues no further call).
C14_AnyThrowAborts ==
    \A r \in Requests :
        (req[r].lastCall \in StepCalls /\ LastCallThrew(r)) =>
            /\ req[r].pc = "done"
            /\ DeploymentOf(r).status = "failed"

\* C14, amended: a throw of the fork creation, of the branch lookup, the
\* main-ref read or the branch creation, of the config.js write or of the
\* workflow-file write ends the request with its record 'failed', and an
\* ended request issues no further GitHub call; a throw of the fork probe,
\* of a file read or of the .env write is swallowed and the request goes on.
C14_UncaughtThrowAborts ==
    /\ [](\A r \in Requests :
            /\ (req[r].lastCall \in AbortingCalls /\ LastCallThrew(r)) =>
                  /\ req[r].pc = "done"
                  /\ req[r].caught
                  /\ DeploymentOf(r).status = "failed"
                  /\ req[r].response.status = 500
            /\ (req[r].lastCall \in SwallowedCalls /\ LastCallThrew(r)) =>
                  /\ req[r].pc # "done"
                  /\ DeploymentOf(r).status = "running")
    /\ [][\A r \in Requests :
            req[r].pc = "done" => (req'[r] = req[r] /\ ghCalls'[r] = ghCalls[r])]_vars

\* the config.js write threw after the branch had been created, and the
\* request issued no call after it
C14_Witness ==
    \E r \in Requests :
        /\ req[r].pc = "done" /\ req[r].lastCall = "putConfig" /\ LastCallThrew(r)
        /\ ghCalls[r][Len(ghCalls[r])].path = CONFIG_PATH
        /\ DeploymentOf(r).status = "failed"

ActionsCalls == {"preCheck", "actionsCheck", "actionsEnable"}

\* C19: when the latest GitHub call of a request is a check of the Actions
\* permissions or the call that enables them, and it threw, the request
\* has written an 'actions-check' row with status 'warning', has gone on
\* (after the pre-check to the Actions verification, otherwise to the branch
\* step, whose 'running' row it has written), and its record is 'running'.
C19_ActionsFailureIsWarning ==
    \A r \in Requests :
        (req[r].lastCall \in ActionsCalls /\ LastCallThrew(r)) =>
            LET rows == RowsOf(r)
                n == Len(rows) IN
            /\ DeploymentOf(r).status = "running"
            /\ ~req[r].caught
            /\ IF req[r].lastCall = "preCheck"
               THEN /\ req[r].pc = "actionsCheck"
                    /\ n >= 4
                    /\ rows[n - 3].step = "actions-check" /\ rows[n - 3].status = "warning"
               ELSE /\ req[r].pc = "branchCheck"
                    /\ n >= 2
                    /\ rows[n - 1].step = "actions-check" /\ rows[n - 1].status = "warning"
                    /\ rows[n].step = "branch" /\ rows[n].status = "running"

\* the enable call threw and the request is at the branch lookup
C19_Witness ==
    \E r \in Requests :
        /\ req[r].lastCall = "actionsEnable" /\ LastCallThrew(r)
        /\ req[r].pc = "branchCheck"
        /\ ghCalls[r][Len(ghCalls[r])].op = "enableActions"

\* C20: the subscriber map never holds an empty set, and a socket whose
\* close handler has run is in no subscriber set: the handler removes it
\* from the set of every deployment id and deletes the sets it emptied.
C20_NoEmptySubscriberSet ==
    /\ \A k \in DOMAIN activeStreams : activeStreams[k] # {}
    /\ \A w \in Sockets :
          readyState[w] = "closed" => \A k \in DOMAIN activeStreams : w \notin activeStreams[k]

\* a socket closed that was the only subscriber of an id, while the set of
\* another id lives on
C20_Witness ==
    \E w, v \in Sockets :
        /\ readyState[w] = "closed" /\ readyState[v] = "open"
        /\ \E t, u \in DOMAIN tasks :
              /\ tasks[t].sock = w /\ tasks[t].dep \notin DOMAIN activeStreams
              /\ tasks[u].sock = v /\ tasks[u].dep \in DOMAIN activeStreams
              /\ activeStreams[tasks[u].dep] = {v}

StoredIds == {deployments[k].id : k \in DOMAIN deployments}

\* C15: every stored log row names the id of a stored Deployment; a step
\* leaves every stored log row as it is and in place (rows are only added);
\* and a step removes no Deployment: every stored id stays stored.
C15_LogsAppendOnlyAndReferential ==
    /\ [](\A i \in DOMAIN deploymentLogs : deploymentLogs[i].deploymentId \in StoredIds)
    /\ [][/\ Len(deploymentLogs') >= Len(deploymentLogs)
          /\ \A i \in DOMAIN deploymentLogs : deploymentLogs'[i] = deploymentLogs[i]
          /\ Len(deployments') >= Len(deployments)
          /\ \A k \in DOMAIN deployments : deployments'[k].id = deployments[k].id]_vars

\* rows of two deployments are stored, one request has failed and the
\* record of the other has been updated since its creation
C15_Witness ==
    /\ Len(deployments) = 2
    /\ \E i, j \in DOMAIN deploymentLogs :
          deploymentLogs[i].deploymentId = 1 /\ deploymentLogs[j].deploymentId = 2
    /\ \E k \in DOMAIN deployments : deployments[k].status = "failed"
    /\ \E k \in DOMAIN deployments : deployments[k].workflowUrl # NullStr

\* C16: in every interleaving of two deploy requests the two requests hold
\* different deployment ids, and a step of a request changes no Deployment
\* record but its own and adds only log rows that carry its own id.
C16_RequestsWriteOwnRecords ==
    /\ [](\A r, q \in Requests2 :
            (r # q /\ req[r].deployment # NoDeployment) =>
                req[r].deployment # req[q].deployment)
    /\ [][\A r \in Requests2 :
            req'[r] # req[r] =>
                /\ \A id \in DOMAIN deployments :
                      id # req'[r].deployment => deployments'[id] = deployments[id]
                /\ \A id \in DOMAIN deployments' :
                      id \notin DOMAIN deployments => id = req'[r].deployment
                /\ \A i \in DOMAIN deploymentLogs' :
                      i > Len(deploymentLogs) =>
                          deploymentLogs'[i].deploymentId = req'[r].deployment]_vars

\* both requests ran to their end, interleaved: one was answered success, the
\* other failed, and the rows of the two are mixed in the log store
C16_Witness ==
    /\ \A r \in Requests2 : req[r].pc = "done" /\ req[r].deployment # NoDeployment
    /\ \E r, q \in Requests2 :
          /\ req[r].response.success /\ req[q].caught
          /\ deployments[req[r].deployment].status = "running"
          /\ deployments[req[q].deployment].status = "failed"
    /\ \E i, j, k \in DOMAIN deploymentLogs :
          /\ i < j /\ j < k
          /\ deploymentLogs[i].deploymentId = deploymentLogs[k].deploymentId
          /\ deploymentLogs[i].deploymentId # deploymentLogs[j].deploymentId

\* the calls of request r that are the call c
CallsLike(r, c) == {i \in DOMAIN ghCalls[r] : ghCalls[r][i].op = c.op /\ ghCalls[r][i].path = c.path}

Dispatches(r) == {i \in DOMAIN ghCalls[r] : ghCalls[r][i].op = "dispatch"}

\* C13: within one deploy request (of server/routes.ts) every GitHub call
\* that changes the fork is issued at most once, except the workflow
\* dispatch, issued at most twice; the second dispatch is issued right after
\* the workflow-file lookup returned the file, and that lookup is made only
\* right after the first dispatch threw.
C13_AtMostOneRetry ==
    /\ [](\A r \in Requests :
            /\ \A i \in DOMAIN ghCalls[r] :
                  ghCalls[r][i].op # "dispatch" =>
                      Cardinality(CallsLike(r, ghCalls[r][i])) = 1
            /\ Cardinality(Dispatches(r)) <= 2)
    /\ [][\A r \in Requests :
            /\ (Cardinality(Dispatches(r)) = 1 /\ Len(ghCalls'[r]) > Len(ghCalls[r])) =>
                  /\ ghCalls'[r][Len(ghCalls'[r])].op = "dispatch"
                  /\ req[r].lastCall = "rtWorkflowCheck"
                  /\ RtMakeGitHubRequest(req[r].lastAns).ret = "data"
            /\ (req[r].lastCall # "rtWorkflowCheck" /\ req'[r].lastCall = "rtWorkflowCheck") =>
                  /\ req[r].lastCall = "rtDispatch"
                  /\ RtMakeGitHubRequest(req[r].lastAns).ret = "throw"
                  /\ Cardinality(Dispatches(r)) = 1]_vars

\* a request that dispatched twice after five other changes of the fork,
\* and was answered success
C13_Witness ==
    \E r \in Requests :
        /\ Cardinality(Dispatches(r)) = 2
        /\ Len(ghCalls[r]) = 7
        /\ req[r].pc = "done" /\ req[r].response.success

\* C17: a setup call made while the user's repository is a fork of the
\* upstream issues no fork-creation call and answers alreadyExists:true;
\* a fork-creation call is issued only when the repository is no such fork.
C17_SetupIdempotent ==
    httpResp.kind = "setup" =>
        /\ httpResp.hadFork => (httpResp.forkCalls = 0 /\ httpResp.alreadyExists)
        /\ httpResp.forkCalls > 0 => ~httpResp.hadFork

\* C18: a step stores a GitHub token in a session only if it is a callback
\* whose state parameter equals the state held by that session, and that
\* state is one the initiation endpoint stored (the session holds a
\* state); a callback whose state differs leaves the session as it was.
C18_TokenOnlyOnInitiatedState ==
    [][\A s \in Sessions :
          /\ (session'[s].githubToken # session[s].githubToken
                /\ session'[s].githubToken # NullStr) =>
                /\ httpResp'.kind = "callback"
                /\ httpResp'.state = session[s].state
                /\ session[s].state \in StateValues
          /\ (httpResp'.kind = "callback" /\ httpResp'.state # session[s].state) =>
                session'[s] = session[s]]_vars

\* the place of a GitHub mutation in the order of the handler
MutationRank(call) ==
    CASE call.op = "createFork" -> 1
      [] call.op = "enableActions" -> 2
      [] call.op = "createRef" -> 3
      [] call.op = "putFile" /\ call.path = CONFIG_PATH -> 4
      [] call.op = "putFile" /\ call.path = ENV_PATH -> 5
      [] call.op = "putFile" /\ call.path = WORKFLOW_PATH -> 6
      [] call.op = "dispatch" -> 7

\* C21: the mutations of one deploy request occur in the order fork
\* creation, branch creation, config.js write, .env write, workflow-file
\* write, dispatch, each at most once; and a dispatch is issued only after
\* GitHub answered 2xx to the workflow-file write of the request and to its
\* branch creation, and names the branch of that creation.
C21_MutationOrderAndDispatch ==
    \A r \in Requests :
        LET calls == ghCalls[r] IN
        /\ \A i, j \in DOMAIN calls :
             i < j => MutationRank(calls[i]) < MutationRank(calls[j])
        /\ \A i \in DOMAIN calls :
             calls[i].op = "dispatch" =>
                /\ req[r].workflowWritten
                /\ req[r].refCreated
                /\ \E j \in 1..(i - 1) :
                     calls[j].op = "createRef" /\ calls[j].branch = calls[i].branch

\* GitHub answered 2xx to the latest call of r, a workflow dispatch
DispatchSucceeded(r) ==
    /\ req[r].lastCall \in {"rtDispatch", "rtRetry"}
    /\ req[r].lastAns.kind = "ok"

\* C22: in the handler that retries the dispatch, a request whose first
\* dispatch threw and whose retry did not succeed ends with the deployment
\* 'failed' and a failure response carrying the first dispatch error; and
\* no request is answered success:true unless a dispatch call succeeded.
C22_FailedDispatchAnswersFailure ==
    \A r \in Requests :
        req[r].pc = "done" =>
            /\ (req[r].dispatchError # <<>> /\ ~DispatchSucceeded(r)) =>
                  /\ DeploymentOf(r).status = "failed"
                  /\ req[r].response.kind = "error"
                  /\ ~req[r].response.success
                  /\ req[r].response.error = req[r].dispatchError
            /\ req[r].response.success => DispatchSucceeded(r)

\* C23: a deploy request has sent a response exactly when its handler has
\* ended, a response once sent is never followed by another, and every
\* request that entered the handler is answered (401, success or 500) if
\* each awaited call returns or throws.
C23_ExactlyOneResponse ==
    /\ [](\A r \in Requests :
            /\ (req[r].response.kind # "none") <=> (req[r].pc = "done")
            /\ req[r].response.kind \in {"none", "unauthenticated", "success", "error"})
    /\ [][\A r \in Requests :
            req[r].response.kind # "none" => req'[r].response = req[r].response]_vars
    /\ \A r \in Requests :
            (req[r].pc # "idle") ~> (req[r].response.kind # "none")

\* a request that threw after its record was created has been answered 500
C23_Witness ==
    \E r \in Requests :
        /\ req[r].pc = "done"
        /\ req[r].caught
        /\ req[r].deployment # NoDeployment
        /\ req[r].response.status = 500
        /\ Len(ghCalls[r]) >= 3

\* the steps a 'logs' message is to list: those of the jobs of the latest
\* run that have a conclusion or are in progress, each named by its job,
\* its number and its start time
ListedSteps(runs) ==
    IF runs = <<>> THEN {}
    ELSE LET jobs == runs[1].jobs IN
         UNION { { <<jobs[j].id, jobs[j].steps[k].number, jobs[j].steps[k].started_at>> :
                     k \in { n \in DOMAIN jobs[j].steps :
                               \/ jobs[j].steps[n].conclusion # NullField
                               \/ jobs[j].steps[n].status = "in_progress" } }
                 : j \in DOMAIN jobs }

\* the fetch was made for a dispatched deployment and GitHub answered both
\* of its calls with 2xx
FetchAnswered ==
    LET dep == getDeployment(deployments, workflowLogs.id) IN
    /\ dep # <<>>
    /\ Truthy(dep[1].workflowUrl)
    /\ workflowLogs.runsAnswer.kind = "ok"
    /\ workflowLogs.jobsAnswer.kind = "ok"

RECURSIVE Lines(_)
Lines(c) ==
    IF c = NoFile \/ \A i \in DOMAIN c : c[i] # "\n" THEN (IF c = NoFile THEN {} ELSE {c})
    ELSE LET nl == CHOOSE i \in DOMAIN c : c[i] = "\n" /\ \A j \in 1..(i - 1) : c[j] # "\n"
         IN {SubSeq(c, 1, nl - 1)} \cup Lines(SubSeq(c, nl + 1, Len(c)))

\* the line assigns SESSION_ID: the word, blanks or none, an equals sign
AssignsSessionId(line) ==
    \E i \in DOMAIN line :
        /\ line[i] = SESSION_ID
        /\ \E k \in (i + 1)..Len(line) :
             line[k] = "=" /\ \A j \in (i + 1)..(k - 1) : line[j] = " "

\* the line holds the assignment SESSION_ID=<sessionId>
HoldsAssignment(line, sessionId) ==
    \E i \in 1..(Len(line) - 2) : SubSeq(line, i, i + 2) = Assignment(sessionId)

\* C25: the content a deploy request has written to .env holds the
\* assignment SESSION_ID=<sessionId> whatever the file held before (no
\* file, no mention of SESSION_ID, a mention of it), and every line of the
\* prior content that is not empty and does not assign SESSION_ID is still
\* there.
C25_EnvUpsertSetsSessionId ==
    envFile.written =>
        /\ \E line \in Lines(envFile.content) : HoldsAssignment(line, "abc123")
        /\ \A line \in Lines(envFile.prior) :
             (line # <<>> /\ ~AssignsSessionId(line)) => line \in Lines(envFile.content)

\* session s holds the login that owns deployment id
OwnedBy(s, id) ==
    /\ id \in DOMAIN deployments
    /\ session[s].githubUsername # ""
    /\ deployments[id].githubUsername = session[s].githubUsername

Unanswered(resp) == resp.status \in {401, 404} /\ resp.body = <<>>

\* C26: in every state that logins, deploys and logouts lead to, what the
\* list, fetch-one and fetch-logs endpoints answer to a session is made of
\* the deployments of that session's login only: the list holds exactly
\* those, one deployment or its logs is returned to a session of its owner
\* only, a session without login gets 401 and any other session 404, with
\* the same empty body whether the deployment exists or not.
C26_ReadsShowOwnDeploymentsOnly ==
    \A s \in DOMAIN session :
        LET login == session[s].githubUsername
            list  == GetUserDeploymentsResponse(s) IN
        /\ IF login = "" THEN list.status = 401 /\ list.body = <<>>
           ELSE /\ list.status = 200
                /\ \A i \in DOMAIN list.body : OwnedBy(s, list.body[i].id)
                /\ \A id \in DOMAIN deployments :
                     OwnedBy(s, id) => \E i \in DOMAIN list.body : list.body[i] = deployments[id]
        /\ \A id \in 1..(MaxDeployments + 1) :
             LET one  == GetSingleDeploymentResponse(s, id)
                 logs == GetLogsResponse(s, id) IN
             IF OwnedBy(s, id)
             THEN /\ one.status = 200 /\ one.body = <<deployments[id]>>
                  /\ logs.status = 200
                  /\ \A i \in DOMAIN logs.body : logs.body[i].deploymentId = id
             ELSE /\ Unanswered(one) /\ Unanswered(logs)
                  /\ one.status = (IF login = "" THEN 401 ELSE 404)
                  /\ logs.status = one.status

\* both users have deployed, the first has logged out; the session of the
\* second asked for the deployment of the first and was answered 404
C26_Witness ==
    /\ Len(deployments) = 2
    /\ deployments[1].githubUsername # deployments[2].githubUsername
    /\ httpResp.kind = "notfound"
    /\ httpResp.id = 1
    /\ \E s \in DOMAIN session : session[s].githubUsername = deployments[2].githubUsername

FileWrites(r) == {i \in DOMAIN ghCalls[r] : ghCalls[r][i].op = "putFile"}

\* C27: of two concurrent deploy requests of one user that name the same
\* new branch, at most one reaches the workflow dispatch; and once GitHub
\* has created the branch for one of them, the other ends with its
\* deployment 'failed' and has written no file and dispatched nothing.
C27_OneRequestWinsTheBranch ==
    /\ \E r \in Requests2 : Dispatches(r) = {}
    /\ \A r \in Requests2 :
         (req[r].pc = "done" /\ \E o \in Requests2 \ {r} : req[o].refCreated) =>
             /\ DeploymentOf(r).status = "failed"
             /\ FileWrites(r) = {}
             /\ Dispatches(r) = {}

\* C28: a record that is 'failed' stays 'failed' whatever runs later, the
\* records only ever hold the statuses 'running' and 'failed', and the record
\* of a request whose dispatch did not throw is 'running' from then on.
C28_FailedIsFinal ==
    /\ [](\A id \in DOMAIN deployments : deployments[id].status \in {"running", "failed"})
    /\ [][\A id \in DOMAIN deployments :
            deployments[id].status = "failed" =>
                /\ id \in DOMAIN deployments'
                /\ deployments'[id].status = "failed"]_vars
    /\ [](\A r \in Requests2 :
            (/\ req[r].pc = "done"
             /\ req[r].lastCall = "dispatch"
             /\ makeGitHubRequest(req[r].lastAns).ret # "throw") =>
                DeploymentOf(r).status = "running")

\* one request has failed and the other, writing after it, has dispatched:
\* one record is 'failed', the other 'running'
C28_Witness ==
    \E r \in Requests2 : \E o \in Requests2 \ {r} :
        /\ req[r].pc = "done" /\ req[o].pc = "done"
        /\ DeploymentOf(r).status = "failed"
        /\ req[o].lastCall = "dispatch" /\ req[o].lastAns.kind = "ok"
        /\ DeploymentOf(o).status = "running"
        /\ \E i, j \in DOMAIN deploymentLogs :
             /\ i < j
             /\ deploymentLogs[i].deploymentId = req[r].deployment
             /\ deploymentLogs[i].step = "error"
             /\ deploymentLogs[j].deploymentId = req[o].deployment

\* C29: when a request that created its branch on GitHub has ended, its
\* record's branchName is the name of that branch, also after a failure
\* of a later step and for a generated or trimmed name.
C29_RecordNamesCreatedBranch ==
    \A r \in Requests :
        (req[r].pc = "done" /\ req[r].refCreated) =>
            DeploymentOf(r).branchName = req[r].finalBranchName

====
